---- MODULE Spec2Model ----
(***************************************************************************)
(* finch-buck2: the CMake lexer and parser (src/src/parser), and the       *)
(* partial evaluator (src/src/analyzer), as a state machine.               *)
(*                                                                         *)
(* Text is a sequence of one-character strings: the source buffer, token   *)
(* values, AST string values and evaluated strings are all such sequences, *)
(* so lexing, concatenation and interpolation are computed character by    *)
(* character as the code computes them.                                    *)
(***************************************************************************)
EXTENDS Integers, Sequences, FiniteSets, TLC

VARIABLES
    source,          \* SourceBuffer::content_ of the file being parsed
    lexer_,          \* Parser::lexer_: what its next_token() calls return, in order
    token_buffer_,   \* Parser::token_buffer_
    current_,        \* Parser::current_ (0-based index into token_buffer_)
    panic_mode_,     \* Parser::panic_mode_
    errors_,         \* Parser::errors_
    elements,        \* the ASTNodeList parse_file_elements is building
    failed,          \* how many times a statement loop took its error branch
    pc,              \* where the driver stands: "parse", "parsed", "eval", "done"
    parse_result,    \* what parse_file returned
    variables_,      \* EvaluationContext::variables_
    cache_variables_,\* EvaluationContext::cache_variables_
    targets_,        \* EvaluationContext::targets_
    result_,         \* CMakeEvaluator::result_
    evaluated,       \* the nodes handed to CMakeEvaluator::evaluate so far
    host,            \* the platform the binary is built for (_WIN32, __APPLE__, other)
    analysis,        \* what CMakeFileEvaluator::analyze returned
    scopes,          \* the EvaluationContexts of a scope tree; parent_ is an index, 0 for nullptr
    writes,          \* the calls made on the scope tree so far, in order
    in_progress,     \* the calls of evaluate in progress on nested bracket expressions
    generators,      \* the Generators at work, by their config_.dry_run
    filesystem,      \* the files written, and the paths that cannot be opened
    source_tree,     \* the source directory of a migration: whether it exists, its entries
    pipeline,        \* the MigrationPipeline: where execute is, and what it has so far
    lexer,           \* a Lexer on source used by itself: its fields, and its last call
    cpm,             \* what parsing source as one CPM command returned
    mapper           \* a TargetMapper used by itself: its last call

vars == <<source, lexer_, token_buffer_, current_, panic_mode_, errors_,
          elements, failed, pc, parse_result, variables_, cache_variables_,
          targets_, result_, evaluated, host, analysis, scopes, writes, in_progress,
          generators, filesystem, source_tree, pipeline, lexer, cpm, mapper>>

parserVars == <<source, lexer_, token_buffer_, current_, panic_mode_,
                errors_, elements, failed, parse_result>>

contextVars == <<variables_, cache_variables_, targets_, result_, evaluated>>

scopeVars == <<scopes, writes>>

nestingVars == <<in_progress>>

\* what parsing and analysing a file do not touch
generatorVars == <<generators, filesystem>>

pipelineVars == <<source_tree, pipeline>>

lexerVars == <<lexer>>

aloneVars == <<cpm, mapper>>

otherVars == <<scopeVars, nestingVars, generatorVars, pipelineVars, lexerVars, aloneVars>>

\* what the parser and the evaluator's visitors do not touch
downstreamVars == <<analysis, otherVars>>

\* no scope tree is in use
InitScopes ==
    /\ scopes = <<>>
    /\ writes = <<>>

\* no call of evaluate is in progress
InitNesting == in_progress = 0

\* no Generator is constructed
InitGenerators ==
    /\ generators = <<>>
    /\ filesystem = [files |-> <<>>, unwritable |-> {}]

\* no MigrationPipeline is constructed
InitPipelines ==
    /\ source_tree = [exists |-> FALSE, entries |-> <<>>]
    /\ pipeline = [st |-> "none"]

\* no Lexer is used by itself
InitLexers == lexer = [st |-> "none"]

\* no CPM command is parsed and no TargetMapper is used by itself
InitAlone == cpm = [st |-> "none"] /\ mapper = [st |-> "none"]

InitOther ==
    /\ InitScopes
    /\ InitNesting
    /\ InitGenerators
    /\ InitPipelines
    /\ InitLexers
    /\ InitAlone

\* v under the name the operator F gives it: auto x = v; F(x)
Bind(v, F(_)) == F(v)

(***************************************************************************)
(* Characters                                                              *)
(***************************************************************************)
NUL == "NUL"    \* what SourceBuffer::at returns past the end ('\0')

Digits == {"0", "1", "2", "3", "4", "5", "6", "7", "8", "9"}

Lower == {"a", "b", "c", "d", "e", "f", "g", "h", "i", "j", "k", "l", "m",
          "n", "o", "p", "q", "r", "s", "t", "u", "v", "w", "x", "y", "z"}

Upper == {"A", "B", "C", "D", "E", "F", "G", "H", "I", "J", "K", "L", "M",
          "N", "O", "P", "Q", "R", "S", "T", "U", "V", "W", "X", "Y", "Z"}

isdigit(ch) == ch \in Digits
isalpha(ch) == ch \in Lower \cup Upper
isalnum(ch) == isalpha(ch) \/ isdigit(ch)
isspace(ch) == ch \in {" ", "\t", "\n", "\r", "\f"}

Min(a, b) == IF a < b THEN a ELSE b

at(src, pos) == IF pos < Len(src) THEN src[pos + 1] ELSE NUL

slice(src, start, end) ==
    IF start >= Len(src) THEN <<>>
    ELSE SubSeq(src, start + 1, Min(end, Len(src)))

starts_with(s, prefix) ==
    Len(s) >= Len(prefix) /\ SubSeq(s, 1, Len(prefix)) = prefix

ends_with(s, suffix) ==
    Len(s) >= Len(suffix) /\ SubSeq(s, Len(s) - Len(suffix) + 1, Len(s)) = suffix

(***************************************************************************)
(* Lexer (src/src/parser/lexer/lexer.cpp).  Every lexing operator takes    *)
(* the buffer and a position and returns the token (or the error) and the  *)
(* position the lexer is left at.                                          *)
(***************************************************************************)
Token(type, vkind, value, text) ==
    [type |-> type, vkind |-> vkind, value |-> value, text |-> text]

make_token(type, src, start_pos, pos) ==
    Token(type, "none", <<>>, slice(src, start_pos, pos))

make_value_token(type, src, start_pos, pos, vkind, value) ==
    Token(type, vkind, value, slice(src, start_pos, pos))

LexOk(tok, pos) == [ok |-> TRUE, tok |-> tok, pos |-> pos]
LexErr(message, pos) == [ok |-> FALSE, message |-> message, pos |-> pos]

is_identifier_start(ch) == isalpha(ch) \/ ch = "_"

is_unquoted_elem(ch) ==
    ch \notin {" ", "\t", "\r", "\n", "(", ")", "#", "\"", "\\", NUL}

RECURSIVE skip_whitespace(_, _, _)
skip_whitespace(src, pos, skip_newlines) ==
    IF pos >= Len(src) THEN pos
    ELSE LET ch == at(src, pos) IN
         IF ch = "\\" /\ at(src, pos + 1) = "\n"
         THEN skip_whitespace(src, pos + 2, skip_newlines)
         ELSE IF ch \in {" ", "\t", "\r"}
         THEN skip_whitespace(src, pos + 1, skip_newlines)
         ELSE IF ch = "\n" /\ skip_newlines
         THEN skip_whitespace(src, pos + 1, skip_newlines)
         ELSE pos

\* skip_line_comment: past the '#', then up to (not over) the newline
RECURSIVE skip_to_eol(_, _)
skip_to_eol(src, pos) ==
    IF pos < Len(src) /\ at(src, pos) # "\n" THEN skip_to_eol(src, pos + 1) ELSE pos

skip_line_comment(src, pos) == skip_to_eol(src, Min(pos + 1, Len(src)))

\* the body of lex_string's loop: [value, pos] when the loop exits
RECURSIVE lex_string_loop(_, _, _, _)
lex_string_loop(src, pos, value, escaped) ==
    IF pos < Len(src) /\ (escaped \/ at(src, pos) # "\"")
    THEN LET ch == at(src, pos) IN
         IF escaped
         THEN lex_string_loop(src, pos + 1,
                  value \o (CASE ch = "n" -> <<"\n">>
                              [] ch = "t" -> <<"\t">>
                              [] ch = "r" -> <<"\r">>
                              [] ch \in {"\\", "\"", "$", ";"} -> <<ch>>
                              [] OTHER -> <<"\\", ch>>),
                  FALSE)
         ELSE IF ch = "\\"
         THEN lex_string_loop(src, pos + 1, value, TRUE)
         ELSE lex_string_loop(src, pos + 1, Append(value, ch), FALSE)
    ELSE [value |-> value, pos |-> pos]

lex_string(src, start_pos) ==
    LET r == lex_string_loop(src, Min(start_pos + 1, Len(src)), <<>>, FALSE) IN
    IF r.pos >= Len(src)
    THEN LexErr("Unterminated string", r.pos)
    ELSE LexOk(make_value_token("String", src, start_pos, r.pos + 1, "string", r.value),
               r.pos + 1)

\* the loop shared by lex_variable ('{' '}') and lex_generator_expr ('<' '>')
RECURSIVE lex_nested_loop(_, _, _, _, _, _)
lex_nested_loop(src, pos, name, depth, open, close) ==
    IF pos < Len(src) /\ depth > 0
    THEN LET ch == at(src, pos) IN
         IF ch = close /\ depth = 1
         THEN [value |-> name, pos |-> pos]
         ELSE lex_nested_loop(src, pos + 1, Append(name, ch),
                  IF ch = open THEN depth + 1
                  ELSE IF ch = close THEN depth - 1 ELSE depth,
                  open, close)
    ELSE [value |-> name, pos |-> pos]

ENV_OPEN == <<"E", "N", "V", "{">>
CACHE_OPEN == <<"C", "A", "C", "H", "E", "{">>

lex_variable(src, start_pos) ==
    LET p0 == start_pos + 2
        is_env == slice(src, p0, p0 + 4) = ENV_OPEN
        is_cache == ~is_env /\ slice(src, p0, p0 + 6) = CACHE_OPEN
        p1 == IF is_env THEN p0 + 4 ELSE IF is_cache THEN p0 + 6 ELSE p0
        r == lex_nested_loop(src, p1, <<>>, 1, "{", "}")
    IN  IF r.pos >= Len(src)
        THEN LexErr("Unterminated variable reference", r.pos)
        ELSE LexOk(make_value_token("Variable", src, start_pos, r.pos + 1, "string",
                       IF is_env THEN ENV_OPEN \o r.value \o <<"}">>
                       ELSE IF is_cache THEN CACHE_OPEN \o r.value \o <<"}">>
                       ELSE r.value),
                   r.pos + 1)

lex_generator_expr(src, start_pos) ==
    LET r == lex_nested_loop(src, start_pos + 2, <<>>, 1, "<", ">") IN
    IF r.pos >= Len(src)
    THEN LexErr("Unterminated generator expression", r.pos)
    ELSE LexOk(make_value_token("GeneratorExpr", src, start_pos, r.pos + 1, "string",
                   r.value),
               r.pos + 1)

RECURSIVE skip_digits(_, _)
skip_digits(src, pos) ==
    IF pos < Len(src) /\ isdigit(at(src, pos)) THEN skip_digits(src, pos + 1) ELSE pos

lex_number(src, start_pos) ==
    LET p1 == skip_digits(src, start_pos)
        p2 == IF at(src, p1) = "." /\ isdigit(at(src, p1 + 1))
              THEN skip_digits(src, p1 + 1) ELSE p1
        p3 == IF at(src, p2) \in {"e", "E"}
                 /\ (isdigit(at(src, p2 + 1))
                     \/ (at(src, p2 + 1) \in {"+", "-"} /\ isdigit(at(src, p2 + 2))))
              THEN skip_digits(src, IF at(src, p2 + 1) \in {"+", "-"}
                                    THEN p2 + 2 ELSE p2 + 1)
              ELSE p2
    IN  \* std::stod of digits[.digits][e[+-]digits] or of ".digits" never throws
        \* for the short numerals of the model
        LexOk(make_value_token("Number", src, start_pos, p3, "double",
                               slice(src, start_pos, p3)),
              p3)

RECURSIVE lex_unquoted_loop(_, _, _)
lex_unquoted_loop(src, pos, value) ==
    IF pos >= Len(src) THEN [value |-> value, pos |-> pos]
    ELSE LET ch == at(src, pos) IN
         IF isspace(ch) \/ ch \in {"(", ")", "#"}
         THEN [value |-> value, pos |-> pos]
         ELSE IF ch = "\\"
         THEN LET next == at(src, pos + 1) IN
              IF next \in {";", " ", "(", ")", "$", "@", "\\", "#"}
              THEN lex_unquoted_loop(src, Min(pos + 2, Len(src)), Append(value, next))
              ELSE IF next = "\n"
              THEN lex_unquoted_loop(src, pos + 2, value)
              ELSE lex_unquoted_loop(src, pos + 1, Append(value, ch))
         ELSE lex_unquoted_loop(src, pos + 1, Append(value, ch))

lex_unquoted_argument(src, start_pos) ==
    LET r == lex_unquoted_loop(src, start_pos, <<>>) IN
    IF r.value = <<>>
    THEN LexErr("Expected argument", r.pos)
    ELSE LexOk(make_value_token("Identifier", src, start_pos, r.pos, "string", r.value),
               r.pos)

RECURSIVE skip_equals(_, _)
skip_equals(src, pos) ==
    IF at(src, pos) = "=" THEN skip_equals(src, pos + 1) ELSE pos

\* position just past the first occurrence of closing at or after pos, or
\* Len(src) when there is none
RECURSIVE find_closing(_, _, _)
find_closing(src, pos, closing) ==
    IF pos >= Len(src) THEN pos
    ELSE IF slice(src, pos, pos + Len(closing)) = closing THEN pos + Len(closing)
    ELSE find_closing(src, pos + 1, closing)

EqualsRun(n) == [i \in 1..n |-> "="]

lex_bracket_comment(src, pos) ==
    LET start_pos == pos - 1
        p1 == skip_equals(src, Min(pos + 2, Len(src)))
        closing == <<"]">> \o EqualsRun(p1 - Min(pos + 2, Len(src))) \o <<"]", "]">>
        p2 == find_closing(src, Min(p1 + 1, Len(src)), closing)
    IN  IF at(src, p1) # "["
        THEN LexErr("Invalid bracket comment syntax", p1)
        ELSE IF p2 >= Len(src)
        THEN LexErr("Unterminated bracket comment", p2)
        ELSE LexOk(make_token("BracketComment", src, start_pos, p2), p2)

lex_bracket_argument(src, start_pos) ==
    LET p0 == start_pos + 1
        p1 == skip_equals(src, p0)
        closing == <<"]">> \o EqualsRun(p1 - p0) \o <<"]">>
        p2 == find_closing(src, Min(p1 + 1, Len(src)), closing)
    IN  IF at(src, p1) # "["
        THEN LexErr("Invalid bracket argument syntax", p1)
        ELSE IF p2 >= Len(src)
        THEN LexErr("Unterminated bracket argument", p2)
        ELSE LexOk(make_value_token("String", src, start_pos, p2, "string",
                       slice(src, p1 + 1, p2 - Len(closing))),
                   p2)

\* The switch's case for ' ', '\t', '\r' (a Whitespace token) is never taken:
\* skip_whitespace has already consumed every such character.
RECURSIVE next_token(_, _)
next_token(src, pos0) ==
    LET pos == skip_whitespace(src, pos0, FALSE)
        ch == at(src, pos)
    IN  IF pos >= Len(src) THEN LexOk(Token("Eof", "none", <<>>, <<>>), pos)
        ELSE IF ch = "(" THEN LexOk(make_token("LeftParen", src, pos, pos + 1), pos + 1)
        ELSE IF ch = ")" THEN LexOk(make_token("RightParen", src, pos, pos + 1), pos + 1)
        ELSE IF ch = "["
        THEN IF pos > 0 /\ at(src, pos - 1) = "#" /\ at(src, pos + 1) = "["
             THEN lex_bracket_comment(src, pos)
             ELSE IF at(src, pos + 1) \in {"=", "["}
             THEN lex_bracket_argument(src, pos)
             ELSE LexOk(make_token("LeftBracket", src, pos, pos + 1), pos + 1)
        ELSE IF ch = "]" THEN LexOk(make_token("RightBracket", src, pos, pos + 1), pos + 1)
        ELSE IF ch = ";" THEN LexOk(make_token("Semicolon", src, pos, pos + 1), pos + 1)
        ELSE IF ch = "\n" THEN LexOk(make_token("Newline", src, pos, pos + 1), pos + 1)
        ELSE IF ch = "#" THEN next_token(src, skip_line_comment(src, pos))
        ELSE IF ch = "\"" THEN lex_string(src, pos)
        ELSE IF ch = "$" /\ at(src, pos + 1) = "{" THEN lex_variable(src, pos)
        ELSE IF ch = "$" /\ at(src, pos + 1) = "<" THEN lex_generator_expr(src, pos)
        ELSE IF isdigit(ch) \/ (ch = "." /\ isdigit(at(src, pos + 1)))
        THEN lex_number(src, pos)
        ELSE IF is_identifier_start(ch) \/ is_unquoted_elem(ch)
        THEN lex_unquoted_argument(src, pos)
        ELSE LexErr("Unexpected character", pos + 1)

\* the results of the calls of next_token from pos on, up to the first Eof;
\* every call after that returns Eof again
RECURSIVE lex_all(_, _)
lex_all(src, pos) ==
    Bind(next_token(src, pos), LAMBDA r :
        IF r.ok /\ r.tok.type = "Eof" THEN <<r>> ELSE <<r>> \o lex_all(src, r.pos))

(***************************************************************************)
(* Parser (src/src/parser).  The parser's fields travel as one record P    *)
(* through the parsing operators; an operator that can fail returns        *)
(* [st, P, node]: st is "ok", "err" (the Result holds a ParseError) or     *)
(* "hang" (a loop of the code that no longer consumes a token).            *)
(***************************************************************************)
Str(s) == [i \in 1..Len(s) |-> SubSeq(s, i, i)]    \* a std::string literal

\* if (!r.has_value()) return Err(r.error());  then F of the value
Then(r, F(_)) == IF r.st # "ok" THEN r ELSE F(r)

Tok(P) == P.token_buffer_[P.current_ + 1]

report_error(P, err) ==
    IF P.panic_mode_ THEN P ELSE [P EXCEPT !.errors_ = Append(@, err)]

\* lexer_.next_token() for the next slot of token_buffer_
next_result(P) == P.lexer_[Min(Len(P.token_buffer_) + 1, Len(P.lexer_))]

\* token_buffer_.push_back: the token, or an Invalid token for a lexer error
push_back(P, r) ==
    [P EXCEPT !.token_buffer_ =
        Append(@, IF r.ok THEN r.tok ELSE Token("Invalid", "none", <<>>, <<>>))]

\* Parser::current(): the parser after the token at current_ is buffered
current(P) ==
    IF P.current_ >= Len(P.token_buffer_)
    THEN IF next_result(P).ok THEN push_back(P, next_result(P))
         ELSE report_error(push_back(P, next_result(P)), next_result(P).message)
    ELSE P

\* Parser::peek(ahead): as current(), but a lexer error is not reported
RECURSIVE peek(_, _)
peek(P, ahead) ==
    IF P.current_ + ahead >= Len(P.token_buffer_)
    THEN peek(push_back(P, next_result(P)), ahead)
    ELSE P

\* Parser::error(): panic_mode_ is set before the caller can report the error
error(P, message) == current([P EXCEPT !.panic_mode_ = TRUE])

Ok(P, node) == [st |-> "ok", P |-> P, node |-> node]
Err(P, message) == [st |-> "err", P |-> error(P, message), err |-> message]
Hang(P) == [st |-> "hang", P |-> P]

advance(P) ==
    Bind(current(P), LAMBDA Q :
        IF Tok(Q).type # "Eof" THEN [Q EXCEPT !.current_ = @ + 1]
        ELSE IF Q.current_ > 0 THEN Q
        ELSE error(Q, "No token to advance"))

consume(P, type, message) ==
    Bind(current(P), LAMBDA Q :
        IF Tok(Q).type = type THEN Ok(advance(Q), Tok(Q)) ELSE Err(Q, message))

\* while (match(t1) || match(t2) ...) {}  and  while (check(..)) advance();
RECURSIVE skip_while(_, _)
skip_while(P, types) ==
    Bind(current(P), LAMBDA Q :
        IF Tok(Q).type \in types THEN skip_while(advance(Q), types) ELSE Q)

skip_trivia(P) == skip_while(P, {"Whitespace", "Comment", "BracketComment", "Newline"})

SyncKeywords ==
    {Str("if"), Str("foreach"), Str("while"), Str("function"), Str("macro"),
     Str("set"), Str("add_library"), Str("add_executable"), Str("target_"),
     Str("find_"), Str("include"), Str("project"), Str("cmake_minimum_required")}

\* the token is an Identifier whose text is one of words
is_word(tok, words) ==
    tok.type = "Identifier" /\ tok.vkind = "string" /\ tok.value \in words

RECURSIVE synchronize_loop(_)
synchronize_loop(P) ==
    Bind(current(P), LAMBDA Q :
        IF Tok(Q).type = "Eof" THEN Q
        ELSE IF Q.current_ > 0 /\ Q.token_buffer_[Q.current_].type = "Newline" THEN Q
        ELSE IF is_word(Tok(Q), SyncKeywords) THEN Q
        ELSE synchronize_loop(advance(Q)))

synchronize(P) == synchronize_loop([P EXCEPT !.panic_mode_ = FALSE])

(***************************************************************************)
(* AST nodes (ASTBuilder) and the numerals strtol / strtod accept.  A      *)
(* number is [neg, ip, fp]: sign, integer part and the fraction's digits   *)
(* without trailing zeros.  The numerals covered are decimal and octal     *)
(* integers and decimal fractions, which are the ones the inputs hold.     *)
(***************************************************************************)
makeString(value, quoted) == [type |-> "StringLiteral", value |-> value, quoted |-> quoted]
makeVariable(name) == [type |-> "Variable", name |-> name]
makeBoolean(value, text) == [type |-> "BooleanLiteral", value |-> value, text |-> text]
makeNumber(text, value) == [type |-> "NumberLiteral", text |-> text, value |-> value]
makeList(elems) == [type |-> "ListExpression", elements |-> elems]
makeBracketExpr(content, quoted) ==
    [type |-> "BracketExpression", content |-> content, quoted |-> quoted]
makeCommand(name, args) == [type |-> "CommandCall", name |-> name, arguments |-> args]
makeBlock(stmts) == [type |-> "Block", statements |-> stmts]

DigitVal(ch) == CHOOSE d \in 0..9 : <<"0", "1", "2", "3", "4", "5", "6", "7", "8", "9">>[d + 1] = ch

RECURSIVE ParseNat(_, _)
ParseNat(digits, base) ==
    IF digits = <<>> THEN 0
    ELSE ParseNat(SubSeq(digits, 1, Len(digits) - 1), base) * base
         + DigitVal(digits[Len(digits)])

RECURSIVE StripTrailingZeros(_)
StripTrailingZeros(digits) ==
    IF digits # <<>> /\ digits[Len(digits)] = "0"
    THEN StripTrailingZeros(SubSeq(digits, 1, Len(digits) - 1)) ELSE digits

Unsigned(value) ==
    IF value # <<>> /\ value[1] \in {"+", "-"} THEN Tail(value) ELSE value

\* the base strtol(.., 0) reads the unsigned numeral in
BaseOf(body) == IF Len(body) > 1 /\ body[1] = "0" THEN 8 ELSE 10

\* strtol(value, &end, 0) consumed all of value
strtol_full(value) ==
    /\ Unsigned(value) # <<>>
    /\ \A i \in 1..Len(Unsigned(value)) :
           /\ isdigit(Unsigned(value)[i])
           /\ DigitVal(Unsigned(value)[i]) < BaseOf(Unsigned(value))

strtol(value) ==
    [neg |-> value[1] = "-",
     ip  |-> ParseNat(Unsigned(value), BaseOf(Unsigned(value))),
     fp  |-> <<>>]

\* index of the '.' in body, or Len(body) + 1
DotAt(body) ==
    IF \E i \in 1..Len(body) : body[i] = "."
    THEN CHOOSE i \in 1..Len(body) : body[i] = "." /\ \A j \in 1..(i - 1) : body[j] # "."
    ELSE Len(body) + 1

\* strtod(value, &end) consumed all of value
strtod_full(value) ==
    /\ \A i \in 1..Len(Unsigned(value)) :
           i # DotAt(Unsigned(value)) => isdigit(Unsigned(value)[i])
    /\ \E i \in 1..Len(Unsigned(value)) : isdigit(Unsigned(value)[i])

strtod(value) ==
    [neg |-> value[1] = "-",
     ip  |-> ParseNat(SubSeq(Unsigned(value), 1, DotAt(Unsigned(value)) - 1), 10),
     fp  |-> StripTrailingZeros(SubSeq(Unsigned(value), DotAt(Unsigned(value)) + 1,
                                       Len(Unsigned(value))))]

(***************************************************************************)
(* InterpolationLexer is declared in include/finch/parser/lexer/           *)
(* interpolation.hpp; its definitions are not part of the source tree.     *)
(* has_interpolations follows the header's doc comment.                    *)
(***************************************************************************)
has_interpolations(str) ==
    \E i \in 1..(Len(str) - 1) : str[i] = "$" /\ str[i + 1] = "{"

\* index of the first "${" of str
FirstOpen(str) ==
    CHOOSE i \in 1..(Len(str) - 1) :
        /\ str[i] = "$" /\ str[i + 1] = "{"
        /\ \A j \in 1..(i - 1) : ~(str[j] = "$" /\ str[j + 1] = "{")

\* index of the first "}" of str after index from, or 0
FirstClose(str, from) ==
    IF \E i \in (from + 1)..Len(str) : str[i] = "}"
    THEN CHOOSE i \in (from + 1)..Len(str) :
             str[i] = "}" /\ \A j \in (from + 1)..(i - 1) : str[j] # "}"
    ELSE 0

\* the parts of a string with ${} references: literal text and variable
\* names in order; a "${" that is never closed stays literal text
RECURSIVE parse_interpolated_string(_)
parse_interpolated_string(str) ==
    IF str = <<>> THEN <<>>
    ELSE IF ~has_interpolations(str) THEN <<makeString(str, FALSE)>>
    ELSE Bind(FirstOpen(str), LAMBDA open :
         Bind(FirstClose(str, open + 1), LAMBDA close :
             IF close = 0 THEN <<makeString(str, FALSE)>>
             ELSE (IF open > 1 THEN <<makeString(SubSeq(str, 1, open - 1), FALSE)>>
                   ELSE <<>>)
                  \o <<makeVariable(SubSeq(str, open + 2, close - 1))>>
                  \o parse_interpolated_string(SubSeq(str, close + 1, Len(str)))))

(***************************************************************************)
(* Arguments (src/src/parser/parser_arguments.cpp)                         *)
(***************************************************************************)
\* one node for one part, a ListExpression for several
node_of_parts(nodes) == IF Len(nodes) = 1 THEN nodes[1] ELSE makeList(nodes)

parse_quoted_argument(P) ==
    Bind(current(P), LAMBDA Q :
        IF Tok(Q).type # "String" THEN Err(Q, "Expected quoted string")
        ELSE IF Tok(Q).vkind # "string" THEN Err(advance(Q), "Invalid string token")
        ELSE IF has_interpolations(Tok(Q).value)
        THEN Ok(advance(Q), node_of_parts(parse_interpolated_string(Tok(Q).value)))
        ELSE Ok(advance(Q), makeString(Tok(Q).value, TRUE)))

\* parts after  parts.push_back(makeString(value))  when value is not empty
flush(parts, value) ==
    IF value # <<>> THEN Append(parts, makeString(value, FALSE)) ELSE parts

\* the inner loop after "text${VAR}": it does not stop at a Newline
RECURSIVE unquoted_rest(_, _, _)
unquoted_rest(P, parts, value) ==
    Bind(current(P), LAMBDA Q :
        IF Tok(Q).type \in {"Whitespace", "RightParen", "Semicolon", "Eof"}
        THEN Ok(Q, makeList(flush(parts, value)))
        ELSE IF Tok(Q).type = "Variable"
        THEN unquoted_rest(advance(Q),
                 IF Tok(Q).vkind = "string"
                 THEN Append(flush(parts, value), makeVariable(Tok(Q).value))
                 ELSE flush(parts, value),
                 <<>>)
        ELSE unquoted_rest(advance(Q), parts, value \o Tok(Q).text))

unquoted_literal(value) ==
    IF value \in {Str("TRUE"), Str("ON"), Str("YES"), Str("Y")}
    THEN makeBoolean(TRUE, value)
    ELSE IF value \in {Str("FALSE"), Str("OFF"), Str("NO"), Str("N")}
    THEN makeBoolean(FALSE, value)
    ELSE IF strtol_full(value) THEN makeNumber(value, strtol(value))
    ELSE IF strtod_full(value) THEN makeNumber(value, strtod(value))
    ELSE makeString(value, FALSE)

RECURSIVE unquoted_loop(_, _, _)
unquoted_loop(P, value, has_content) ==
    Bind(current(P), LAMBDA Q :
        IF Tok(Q).type \in {"Whitespace", "Newline", "RightParen", "Semicolon", "Eof"}
        THEN IF ~has_content THEN Err(Q, "Expected argument")
             ELSE Ok(Q, unquoted_literal(value))
        ELSE IF Tok(Q).type = "Variable"
        THEN IF value # <<>>
             THEN unquoted_rest(advance(Q),
                      <<makeString(value, FALSE)>>
                      \o (IF Tok(Q).vkind = "string" THEN <<makeVariable(Tok(Q).value)>>
                          ELSE <<>>),
                      <<>>)
             ELSE IF Tok(Q).vkind # "string" THEN Err(Q, "Invalid variable token")
             ELSE Ok(advance(Q), makeVariable(Tok(Q).value))
        ELSE unquoted_loop(advance(Q), value \o Tok(Q).text, TRUE))

parse_unquoted_argument(P) == unquoted_loop(P, <<>>, FALSE)

\* the run of "=" Identifier tokens parse_bracket_argument counts
RECURSIVE count_equals(_, _)
count_equals(P, n) ==
    Bind(current(P), LAMBDA Q :
        IF is_word(Tok(Q), {<<"=">>}) THEN count_equals(advance(Q), n + 1)
        ELSE [P |-> Q, n |-> n])

\* the token at a "]" that does not close the argument: current_ = pos, then
\* its text is added to the content
rewind(P, pos) == current([P EXCEPT !.current_ = pos])

RECURSIVE bracket_content(_, _, _)
bracket_content(P, content, equals_count) ==
    Bind(current(P), LAMBDA Q :
        IF Tok(Q).type = "Eof" THEN [P |-> Q, content |-> content]
        ELSE IF Tok(Q).type = "RightBracket"
        THEN Bind(count_equals(advance(Q), 0), LAMBDA e :
                 IF e.n = equals_count /\ Tok(e.P).type = "RightBracket"
                 THEN [P |-> advance(e.P), content |-> content]
                 ELSE bracket_content(advance(rewind(e.P, Q.current_)),
                                      content \o Tok(Q).text, equals_count))
        ELSE bracket_content(advance(Q), content \o Tok(Q).text, equals_count))

parse_bracket_argument(P) ==
    Then(consume(P, "LeftBracket", "Expected '['"), LAMBDA lb1 :
    Then(consume(lb1.P, "LeftBracket", "Expected second '['"), LAMBDA lb2 :
    Bind(count_equals(lb2.P, 0), LAMBDA e :
    Bind(bracket_content(e.P, <<>>, e.n), LAMBDA r :
        Ok(r.P, makeBracketExpr(makeString(r.content, FALSE), TRUE))))))

parse_primary_expression(P) ==
    Bind(skip_trivia(P), LAMBDA Q :
        IF Tok(Q).type = "Variable"
        THEN IF Tok(Q).vkind # "string" THEN Err(Q, "Invalid variable token")
             ELSE Ok(advance(Q), makeVariable(Tok(Q).value))
        ELSE IF Tok(Q).type = "String" THEN parse_quoted_argument(Q)
        ELSE IF Tok(Q).type = "Identifier" THEN parse_unquoted_argument(Q)
        ELSE IF Tok(Q).type = "Number"
        THEN IF Tok(Q).vkind # "double" THEN Err(Q, "Invalid number token")
             ELSE Ok(advance(Q), makeNumber(Tok(Q).text, strtod(Tok(Q).value)))
        ELSE IF Tok(Q).type = "GeneratorExpr"
        THEN IF Tok(Q).vkind # "string" THEN Err(Q, "Invalid generator expression token")
             ELSE Ok(advance(Q),
                     [type |-> "GeneratorExpression", expression |-> Tok(Q).value])
        ELSE Err(Q, "Expected expression"))

parse_expression(P) == parse_primary_expression(P)

parse_argument(P) ==
    Bind(current(P), LAMBDA Q :
        IF Tok(Q).type = "String" THEN parse_quoted_argument(Q)
        ELSE IF Tok(Q).type = "LeftBracket"
        THEN Bind(peek(Q, 1), LAMBDA R :
                 IF R.token_buffer_[R.current_ + 2].type = "LeftBracket"
                 THEN parse_bracket_argument(R)
                 ELSE parse_expression(R))
        ELSE parse_unquoted_argument(Q))

\* the parser after  if (match(type)) {}
match(P, type) == IF Tok(P).type = type THEN advance(P) ELSE P

RECURSIVE arguments_loop(_, _)
arguments_loop(P, args) ==
    Bind(current(P), LAMBDA Q :
        IF Tok(Q).type \in {"RightParen", "Eof"} THEN Ok(Q, args)
        ELSE Bind(skip_while(Q, {"Whitespace", "Newline"}), LAMBDA R :
             IF Tok(R).type \in {"RightParen", "Eof"} THEN Ok(R, args)
             ELSE Then(parse_argument(R), LAMBDA a :
                  arguments_loop(match(skip_while(a.P, {"Whitespace"}), "Semicolon"),
                                 Append(args, a.node)))))

parse_arguments(P) == arguments_loop(P, <<>>)

(***************************************************************************)
(* CPM commands (src/src/parser/cpm_parser.cpp).  A call returns           *)
(* [st, node] or [st, err].  Of the four commands parse_cpm_command knows, *)
(* CPMAddPackage is modelled; the sources hold no other one.               *)
(***************************************************************************)
\* s.find_first_of(chars), and Len(s) for npos
find_first_of(s, chars) ==
    IF \E i \in 1..Len(s) : s[i] \in chars
    THEN (CHOOSE i \in 1..Len(s) : s[i] \in chars /\ \A j \in 1..(i - 1) : s[j] \notin chars)
         - 1
    ELSE Len(s)

contains(s, ch) == find_first_of(s, {ch}) < Len(s)

NoMatch == [matched |-> FALSE, owner |-> <<>>, repo |-> <<>>, version |-> <<>>]

\* ([^/@#]+)/([^/@#]+)(?:[@#](.+))?$  on s
match_owner_repo(s) ==
    LET stop == {"/", "@", "#"}
        a == find_first_of(s, stop)
        rest == slice(s, a + 1, Len(s))
        b == find_first_of(rest, stop)
    IN  IF a = 0 \/ at(s, a) # "/" \/ b = 0 THEN NoMatch
        ELSE IF b = Len(rest)
        THEN [matched |-> TRUE, owner |-> slice(s, 0, a), repo |-> rest, version |-> <<>>]
        ELSE IF at(rest, b) \in {"@", "#"} /\ b + 1 < Len(rest)
        THEN [matched |-> TRUE, owner |-> slice(s, 0, a), repo |-> slice(rest, 0, b),
              version |-> slice(rest, b + 1, Len(rest))]
        ELSE NoMatch

\* ^(?:gh:)?([^/@#]+)/([^/@#]+)(?:[@#](.+))?$ : the prefix is tried first, and
\* taken as part of the owner when the rest does not match without it
GITHUB_SHORTHAND_REGEX(str) ==
    IF starts_with(str, Str("gh:")) /\ match_owner_repo(slice(str, 3, Len(str))).matched
    THEN match_owner_repo(slice(str, 3, Len(str)))
    ELSE match_owner_repo(str)

is_github_shorthand(str) == GITHUB_SHORTHAND_REGEX(str).matched

CPMOk(node) == [st |-> "ok", node |-> node]
CPMErr(message) == [st |-> "err", err |-> message]

parse_github_shorthand(shorthand) ==
    Bind(GITHUB_SHORTHAND_REGEX(shorthand), LAMBDA match_ :
        IF ~match_.matched THEN CPMErr("Invalid CPM shorthand syntax")
        ELSE CPMOk([repo_spec |-> match_.owner \o <<"/">> \o match_.repo,
                    version_str |-> match_.version]))

CPMVersion == [has_value |-> FALSE, version |-> <<>>, exact |-> FALSE, git_tag |-> <<>>]

parse_version_string(version_str) ==
    IF Len(version_str) >= 2 /\ version_str[1] = "@"
    THEN [CPMVersion EXCEPT !.version = slice(version_str, 1, Len(version_str)),
                            !.exact = TRUE]
    ELSE IF Len(version_str) >= 3 /\ starts_with(version_str, Str(">="))
    THEN [CPMVersion EXCEPT !.version = slice(version_str, 2, Len(version_str))]
    ELSE [CPMVersion EXCEPT
             !.version = version_str,
             !.git_tag = IF \/ contains(version_str, "/")
                            \/ contains(version_str, "-")
                            \/ Len(version_str) = 40
                         THEN version_str ELSE <<>>]

\* source_type_ has no initializer: it is indeterminate until set_source
CPMAddPackage(name) ==
    [type |-> "CPMAddPackage", name |-> name, source_type_ |-> "indeterminate",
     source_ |-> <<>>, version_ |-> CPMVersion, options_ |-> <<>>]

set_source(package, type, from) ==
    [package EXCEPT !.source_type_ = type, !.source_ = from]

set_version(package, version) ==
    [package EXCEPT !.version_ = [version EXCEPT !.has_value = TRUE]]

add_option(package, key, value) ==
    [package EXCEPT !.options_ =
        [k \in DOMAIN @ \cup {key} |-> IF k = key THEN value ELSE @[k]]]

parse_cpm_add_package_shorthand(shorthand) ==
    Bind(parse_github_shorthand(shorthand), LAMBDA gh_result :
        IF gh_result.st # "ok" THEN gh_result
        ELSE Bind(gh_result.node, LAMBDA gh :
             Bind(find_first_of(gh.repo_spec, {"/"}), LAMBDA slash_pos :
                 IF slash_pos = Len(gh.repo_spec)
                 THEN CPMErr("Invalid GitHub repository format")
                 ELSE Bind(set_source(CPMAddPackage(slice(gh.repo_spec, slash_pos + 1,
                                                          Len(gh.repo_spec))),
                                      "GitHub", gh.repo_spec), LAMBDA package :
                          IF gh.version_str # <<>>
                          THEN CPMOk(set_version(package,
                                                 parse_version_string(gh.version_str)))
                          ELSE CPMOk(package)))))

get_string_value(node) ==
    IF node.type = "StringLiteral" THEN CPMOk(node.value)
    ELSE CPMErr("Expected string literal or identifier")

is_string(node, values) == node.type = "StringLiteral" /\ node.value \in values

\* the index (from 0) of the first argument that is the word name, or Len(args)
find_argument(args, name) ==
    IF \E i \in 1..Len(args) : is_string(args[i], {name})
    THEN (CHOOSE i \in 1..Len(args) :
              is_string(args[i], {name}) /\ \A j \in 1..(i - 1) : ~is_string(args[j], {name}))
         - 1
    ELSE Len(args)

RECURSIVE parse_options_block(_, _, _)
parse_options_block(package, options, i) ==
    IF i >= Len(options) THEN package
    ELSE IF options[i + 1].type # "StringLiteral"
    THEN parse_options_block(package, options, i + 1)
    ELSE Bind(options[i + 1].value, LAMBDA opt_str :
         Bind(find_first_of(opt_str, {" "}), LAMBDA space_pos :
             IF space_pos < Len(opt_str)
             THEN Bind(slice(opt_str, 0, space_pos), LAMBDA key :
                      parse_options_block(
                          add_option(package, slice(key, 0, find_first_of(key, {":"})),
                                     slice(opt_str, space_pos + 1, Len(opt_str))),
                          options, i + 1))
             ELSE IF i + 1 < Len(options) /\ options[i + 2].type = "StringLiteral"
             THEN parse_options_block(add_option(package, opt_str, options[i + 2].value),
                                      options, i + 2)
             ELSE parse_options_block(package, options, i + 1)))

CPMKeywords == {Str("DOWNLOAD_ONLY"), Str("EXCLUDE_FROM_ALL"), Str("SYSTEM"), Str("NO_CACHE")}

\* the index (from 0) at which the collection of the OPTIONS stops
options_end(args, i) ==
    IF \E j \in (i + 1)..Len(args) : is_string(args[j], CPMKeywords)
    THEN (CHOOSE j \in (i + 1)..Len(args) :
              /\ is_string(args[j], CPMKeywords)
              /\ \A k \in (i + 1)..(j - 1) : ~is_string(args[k], CPMKeywords))
         - 1
    ELSE Len(args)

\* the loop over the remaining arguments of parse_cpm_add_package_full
RECURSIVE cpm_arguments_loop(_, _, _)
cpm_arguments_loop(package, args, i) ==
    IF i >= Len(args) THEN package
    ELSE IF args[i + 1].type # "StringLiteral" THEN cpm_arguments_loop(package, args, i + 1)
    ELSE Bind(args[i + 1].value, LAMBDA key :
         Bind(i + 1 < Len(args) /\ args[Min(i + 2, Len(args))].type = "StringLiteral",
              LAMBDA has_value :
         Bind(args[Min(i + 2, Len(args))], LAMBDA value :
             IF key \in {Str("GITHUB_REPOSITORY"), Str("GIT_REPOSITORY"), Str("URL"),
                         Str("VERSION"), Str("GIT_TAG")} /\ i + 1 < Len(args)
             THEN IF ~has_value THEN cpm_arguments_loop(package, args, i + 1)
                  ELSE cpm_arguments_loop(
                           IF key = Str("GITHUB_REPOSITORY")
                           THEN set_source(package, "GitHub", value.value)
                           ELSE IF key = Str("GIT_REPOSITORY")
                           THEN set_source(package, "GitURL", value.value)
                           ELSE IF key = Str("URL")
                           THEN set_source(package, "URL", value.value)
                           ELSE IF key = Str("VERSION")
                           THEN set_version(package, parse_version_string(value.value))
                           ELSE set_version(package,
                                    [CPMVersion EXCEPT !.git_tag = value.value,
                                                       !.version = value.value]),
                           args, i + 2)
             ELSE IF key = Str("OPTIONS")
             THEN Bind(options_end(args, i + 1), LAMBDA stop :
                      cpm_arguments_loop(
                          parse_options_block(package, slice(args, i + 1, stop), 0),
                          args, IF stop < Len(args) THEN stop ELSE stop + 1))
             ELSE cpm_arguments_loop(package, args, i + 1))))

parse_cpm_add_package_full(args) ==
    Bind(find_argument(args, Str("NAME")), LAMBDA name_node :
        IF name_node < Len(args)
        THEN IF name_node + 1 < Len(args) /\ args[name_node + 2].type = "StringLiteral"
             THEN CPMOk(cpm_arguments_loop(CPMAddPackage(args[name_node + 2].value),
                                           args, 0))
             ELSE CPMErr("CPMAddPackage requires NAME")
        ELSE IF Len(args) > 0 /\ args[1].type = "StringLiteral" /\ args[1].value # <<>>
        THEN CPMOk(cpm_arguments_loop(CPMAddPackage(args[1].value), args, 1))
        ELSE CPMErr("CPMAddPackage requires NAME"))

parse_cpm_add_package(args) ==
    IF args = <<>> THEN CPMErr("CPMAddPackage requires arguments")
    ELSE IF /\ Len(args) = 1
            /\ args[1].type = "StringLiteral"
            /\ is_github_shorthand(args[1].value)
    THEN parse_cpm_add_package_shorthand(args[1].value)
    ELSE parse_cpm_add_package_full(args)

parse_cpm_command(command_name, args) ==
    IF command_name = Str("CPMAddPackage") THEN parse_cpm_add_package(args)
    ELSE CPMErr("Unknown CPM command")

\* a command whose name starts with "CPM" and that parse_cpm_command does not
\* take is a regular command
parse_command_invocation(P) ==
    Then(consume(P, "Identifier", "Expected command name"), LAMBDA name :
    IF name.node.vkind # "string" THEN Err(name.P, "Invalid command name")
    ELSE
    Then(consume(skip_while(name.P, {"Whitespace"}), "LeftParen",
                 "Expected '(' after command name"), LAMBDA lparen :
    Then(parse_arguments(lparen.P), LAMBDA args :
    Then(consume(args.P, "RightParen", "Expected ')' after arguments"), LAMBDA rparen :
        IF /\ starts_with(name.node.value, Str("CPM"))
           /\ parse_cpm_command(name.node.value, args.node).st = "ok"
        THEN Ok(rparen.P, parse_cpm_command(name.node.value, args.node).node)
        ELSE Ok(rparen.P, makeCommand(name.node.value, args.node))))))

(***************************************************************************)
(* Control flow (src/src/parser/parser_control_flow.cpp)                   *)
(***************************************************************************)
\* keyword ws* '('  : the opening every control-flow statement starts with
parse_header(P, keyword) ==
    Then(consume(P, "Identifier", "Expected keyword"), LAMBDA kw :
        consume(skip_while(kw.P, {"Whitespace"}), "LeftParen", "Expected '(' after keyword"))

\* endkeyword ws* '(' ')' : any Identifier is taken as the end keyword
parse_end(P) ==
    Then(consume(P, "Identifier", "Expected end keyword"), LAMBDA kw :
    Then(consume(skip_while(kw.P, {"Whitespace"}), "LeftParen",
                 "Expected '(' after end keyword"), LAMBDA lparen :
        consume(lparen.P, "RightParen", "Expected ')' after end keyword")))

is_at_block_terminator(P, terminators) == is_word(Tok(current(P)), terminators)

RECURSIVE parse_statement(_)
RECURSIVE block_loop(_, _, _)

\* One pass of the statement loop's error branch: report, synchronize, skip
\* trivia.  failed counts the passes.
recover(P, err) ==
    [skip_trivia(synchronize(report_error(P, err))) EXCEPT !.failed = @ + 1]

\* the statement loops after a statement: stmt is what parse_statement
\* returned to the pass that began at token index start.  A failed pass that
\* leaves current_ where it began is repeated for ever.
after_statement(stmt, start) ==
    IF stmt.st = "hang" THEN stmt
    ELSE IF stmt.st = "ok" THEN Ok(skip_trivia(stmt.P), <<stmt.node>>)
    ELSE Bind(recover(stmt.P, stmt.err), LAMBDA S :
             IF S.current_ = start /\ Tok(S).type # "Eof" THEN Hang(S) ELSE Ok(S, <<>>))

\* parse_block_until's loop
block_loop(P, statements, terminators) ==
    Bind(current(P), LAMBDA Q :
        IF Tok(Q).type = "Eof" THEN Ok(Q, statements)
        ELSE Bind(skip_trivia(Q), LAMBDA R :
             IF is_at_block_terminator(R, terminators) THEN Ok(R, statements)
             ELSE Then(after_statement(parse_statement(R), Q.current_), LAMBDA pass :
                  block_loop(pass.P, statements \o pass.node, terminators))))

parse_block_until(P, terminators) == block_loop(P, <<>>, terminators)

\* ws/newlines, then the body up to a terminator
parse_body(P, terminators) ==
    parse_block_until(skip_while(P, {"Whitespace", "Newline"}), terminators)

\* '(' condition ')' body : shared by if, elseif and while
parse_condition_body(P, terminators) ==
    Then(parse_expression(P), LAMBDA condition :
    Then(consume(condition.P, "RightParen", "Expected ')' after condition"), LAMBDA rparen :
    Then(parse_body(rparen.P, terminators), LAMBDA body :
        Ok(body.P, [condition |-> condition.node, body |-> body.node]))))

\* IfStatement::add_elseif: the bare condition node, then the body's statements
add_elseif(if_stmt, condition, body) ==
    [if_stmt EXCEPT !.elseif_branches = @ \o <<condition>> \o body]

set_else_branch(if_stmt, body) == [if_stmt EXCEPT !.else_branch = body]

IfTerminators == {Str("else"), Str("elseif"), Str("endif")}

RECURSIVE if_branches(_, _)
if_branches(P, if_stmt) ==
    Bind(current(P), LAMBDA Q :
        IF is_word(Tok(Q), {Str("elseif")})
        THEN Then(consume(skip_while(advance(Q), {"Whitespace"}), "LeftParen",
                          "Expected '(' after 'elseif'"), LAMBDA lparen :
             Then(parse_condition_body(lparen.P, IfTerminators), LAMBDA cb :
                 if_branches(cb.P, add_elseif(if_stmt, cb.node.condition, cb.node.body))))
        ELSE IF is_word(Tok(Q), {Str("else")})
        THEN Then(consume(skip_while(advance(Q), {"Whitespace"}), "LeftParen",
                          "Expected '(' after 'else'"), LAMBDA lparen :
             Then(consume(lparen.P, "RightParen", "Expected ')' after 'else('"),
                  LAMBDA rparen :
             Then(parse_body(rparen.P, {Str("endif")}), LAMBDA body :
                 Ok(body.P, set_else_branch(if_stmt, body.node)))))
        ELSE Ok(Q, if_stmt))

makeIf(condition, then_branch) ==
    [type |-> "IfStatement", condition |-> condition, then_branch |-> then_branch,
     elseif_branches |-> <<>>, else_branch |-> <<>>]

parse_if_statement(P) ==
    Then(parse_header(P, "if"), LAMBDA header :
    Then(parse_condition_body(header.P, IfTerminators), LAMBDA cb :
    Then(if_branches(cb.P, makeIf(cb.node.condition, cb.node.body)), LAMBDA branches :
    Then(parse_end(branches.P), LAMBDA end :
        Ok(end.P, branches.node)))))

parse_while_statement(P) ==
    Then(parse_header(P, "while"), LAMBDA header :
    Then(parse_condition_body(header.P, {Str("endwhile")}), LAMBDA cb :
    Then(parse_end(cb.P), LAMBDA end :
        Ok(end.P, [type |-> "WhileStatement", condition |-> cb.node.condition,
                   body |-> cb.node.body]))))

RECURSIVE foreach_variables(_, _)
foreach_variables(P, variables) ==
    Bind(current(P), LAMBDA Q :
        IF Tok(Q).type # "Identifier" THEN Ok(Q, variables)
        ELSE IF Tok(Q).vkind # "string" THEN Err(Q, "Invalid variable name")
        ELSE IF Tok(Q).value \in {Str("IN"), Str("RANGE")} THEN Ok(Q, variables)
        ELSE foreach_variables(skip_while(advance(Q), {"Whitespace"}),
                               Append(variables, Tok(Q).value)))

\* the loop type after "IN": the token that follows the whitespace decides
in_loop_type(R) ==
    IF is_word(Tok(R), {Str("LISTS"), Str("ITEMS"), Str("ZIP_LISTS")})
    THEN Ok(advance(R), CASE Tok(R).value = Str("LISTS") -> "IN_LISTS"
                          [] Tok(R).value = Str("ITEMS") -> "IN_ITEMS"
                          [] OTHER -> "IN_ZIP_LISTS")
    ELSE Ok(R, "IN")

parse_foreach_loop_type(P) ==
    Bind(current(P), LAMBDA Q :
        IF Tok(Q).type # "Identifier" THEN Err(Q, "Expected loop type (IN, RANGE, etc.)")
        ELSE IF Tok(Q).vkind # "string" THEN Err(Q, "Invalid loop type token")
        ELSE IF Tok(Q).value = Str("RANGE") THEN Ok(advance(Q), "RANGE")
        ELSE IF Tok(Q).value # Str("IN") THEN Err(Q, "Expected 'IN' or 'RANGE' in foreach")
        ELSE in_loop_type(skip_while(advance(Q), {"Whitespace"})))

parse_foreach_statement(P) ==
    Then(parse_header(P, "foreach"), LAMBDA header :
    Then(foreach_variables(header.P, <<>>), LAMBDA variables :
    IF variables.node = <<>> THEN Err(variables.P, "Expected loop variable(s) in foreach")
    ELSE
    Then(parse_foreach_loop_type(variables.P), LAMBDA loop_type :
    Then(parse_arguments(loop_type.P), LAMBDA items :
    Then(consume(items.P, "RightParen", "Expected ')' after foreach arguments"),
         LAMBDA rparen :
    Then(parse_body(rparen.P, {Str("endforeach")}), LAMBDA body :
    Then(parse_end(body.P), LAMBDA end :
        Ok(end.P, [type |-> "ForEachStatement", variables |-> variables.node,
                   loop_type |-> loop_type.node, items |-> items.node,
                   body |-> body.node]))))))))

\* the parameter loop of parse_function_def / parse_macro_def: a token that
\* is neither an Identifier, a ')' nor Eof is never consumed
RECURSIVE parameters_loop(_, _)
parameters_loop(P, parameters) ==
    Bind(current(P), LAMBDA Q :
        IF Tok(Q).type \in {"RightParen", "Eof"} THEN Ok(Q, parameters)
        ELSE IF Tok(Q).type = "Identifier" /\ Tok(Q).vkind = "string"
        THEN parameters_loop(skip_while(advance(Q), {"Whitespace"}),
                             Append(parameters, Tok(Q).value))
        ELSE Bind(skip_while(Q, {"Whitespace"}), LAMBDA S :
                 IF S.current_ = Q.current_ THEN Hang(S)
                 ELSE parameters_loop(S, parameters)))

\* parse_function_def and parse_macro_def differ in the keyword only
parse_definition(P, keyword) ==
    Then(parse_header(P, keyword), LAMBDA header :
    Bind(current(header.P), LAMBDA Q :
    IF Tok(Q).type # "Identifier" THEN Err(Q, "Expected name")
    ELSE IF Tok(Q).vkind # "string" THEN Err(Q, "Invalid name")
    ELSE
    Then(parameters_loop(skip_while(advance(Q), {"Whitespace"}), <<>>), LAMBDA parameters :
    Then(consume(parameters.P, "RightParen", "Expected ')' after parameters"),
         LAMBDA rparen :
    Then(parse_body(rparen.P, {Str("end" \o keyword)}), LAMBDA body :
    Then(parse_end(body.P), LAMBDA end :
        Ok(end.P, [type |-> IF keyword = "function" THEN "FunctionDef" ELSE "MacroDef",
                   name |-> Tok(Q).value, parameters |-> parameters.node,
                   body |-> body.node])))))))

parse_function_def(P) == parse_definition(P, "function")
parse_macro_def(P) == parse_definition(P, "macro")

\* the statement the keyword at the current token starts
parse_keyword(Q) ==
    IF Tok(Q).value = Str("if") THEN parse_if_statement(Q)
    ELSE IF Tok(Q).value = Str("foreach") THEN parse_foreach_statement(Q)
    ELSE IF Tok(Q).value = Str("while") THEN parse_while_statement(Q)
    ELSE IF Tok(Q).value = Str("function") THEN parse_function_def(Q)
    ELSE IF Tok(Q).value = Str("macro") THEN parse_macro_def(Q)
    ELSE parse_command_invocation(Q)

parse_statement(P) ==
    Bind(skip_while(P, {"Whitespace"}), LAMBDA Q :
        IF Tok(Q).type = "Identifier"
        THEN IF Tok(Q).vkind # "string" THEN Err(Q, "Invalid identifier token")
             ELSE parse_keyword(Q)
        ELSE IF Tok(Q).type \in {"Comment", "BracketComment"}
        THEN Ok(current(advance(Q)), makeBlock(<<>>))
        ELSE Err(Q, "Expected command or control flow statement"))

(***************************************************************************)
(* parse_file (src/src/parser/parser.cpp), one pass of its statement loop  *)
(* per step                                                                *)
(***************************************************************************)
\* the Parser's fields as the record the parsing operators take
Parser ==
    [lexer_ |-> lexer_, token_buffer_ |-> token_buffer_, current_ |-> current_,
     panic_mode_ |-> panic_mode_, errors_ |-> errors_, failed |-> failed]

\* the fields after a step, but for errors_
SetParser(P) ==
    /\ token_buffer_' = P.token_buffer_
    /\ current_' = P.current_
    /\ panic_mode_' = P.panic_mode_
    /\ failed' = P.failed
    /\ UNCHANGED <<source, lexer_>>

\* the loop head and the leading skip_trivia of parse_file_elements
AtStatement == skip_trivia(current(Parser))

\* the end of a pass of parse_file_elements' loop
PassDone(pass) ==
    /\ SetParser(pass.P)
    /\ errors_' = pass.P.errors_
    /\ elements' = IF pass.st = "ok" THEN elements \o pass.node ELSE elements
    /\ pc' = IF pass.st = "hang" THEN "hang" ELSE "parse"

\* One pass of parse_file_elements' loop.  A failed pass that consumes no
\* token is repeated for ever: parse_file does not return.
ParseFileElement ==
    /\ pc = "parse"
    /\ Tok(current(Parser)).type # "Eof"
    /\ Tok(AtStatement).type # "Eof"
    /\ PassDone(after_statement(parse_statement(AtStatement), current_))
    /\ UNCHANGED <<parse_result, contextVars, host, downstreamVars>>

\* parse_file after parse_file_elements left the parser as P: the errors,
\* or else the File
Return(P) ==
    /\ SetParser(P)
    /\ IF P.errors_ # <<>>
       THEN /\ parse_result' = [st |-> "err", errors |-> P.errors_]
            /\ errors_' = <<>>
       ELSE /\ parse_result' = [st |-> "ok", statements |-> elements]
            /\ errors_' = P.errors_
    /\ pc' = "parsed"

ParseFileReturn ==
    /\ pc = "parse"
    /\ Tok(current(Parser)).type = "Eof" \/ Tok(AtStatement).type = "Eof"
    /\ Return(IF Tok(current(Parser)).type = "Eof" THEN current(Parser) ELSE AtStatement)
    /\ UNCHANGED <<elements, contextVars, host, downstreamVars>>

(***************************************************************************)
(* Evaluation context (src/src/analyzer/evaluation_context.cpp).  A Value  *)
(* is [kind, v] with kind "string", "bool", "double" or "list"; the        *)
(* context travels as a record C through the evaluating operators.         *)
(***************************************************************************)
StringValue(chars) == [kind |-> "string", v |-> chars]

\* enum class Confidence { Certain, Likely, Uncertain, Unknown }
ConfidenceRank(c) ==
    CASE c = "Certain" -> 0 [] c = "Likely" -> 1 [] c = "Uncertain" -> 2 [] c = "Unknown" -> 3

\* std::min on two Confidence values: the one declared first
std_min(a, b) == IF ConfidenceRank(b) < ConfidenceRank(a) THEN b ELSE a

set_variable(C, name, value, confidence) ==
    [C EXCEPT !.variables_ =
        [n \in DOMAIN @ \cup {name} |->
            IF n = name THEN [value |-> value, confidence |-> confidence] ELSE @[n]]]

set_cache_variable(C, name, value, confidence) ==
    [C EXCEPT !.cache_variables_ =
        [n \in DOMAIN @ \cup {name} |->
            IF n = name THEN [value |-> value, confidence |-> confidence] ELSE @[n]]]

has_variable(C, name) == name \in DOMAIN C.variables_
get_variable(C, name) == C.variables_[name]
has_cache_variable(C, name) == name \in DOMAIN C.cache_variables_
get_cache_variable(C, name) == C.cache_variables_[name]

add_target(C, target) == [C EXCEPT !.targets_ = Append(@, target)]

\* the variables initialize_builtin_variables sets, by target platform
BuiltinVariables(platform) ==
    LET S(name, chars, confidence) ==
            <<Str(name), [value |-> StringValue(Str(chars)), confidence |-> confidence]>>
        common == {S("CMAKE_SOURCE_DIR", "/source", "Uncertain"),
                   S("CMAKE_BINARY_DIR", "/build", "Uncertain"),
                   S("CMAKE_CURRENT_SOURCE_DIR", "/source", "Uncertain"),
                   S("CMAKE_CURRENT_BINARY_DIR", "/build", "Uncertain"),
                   S("CMAKE_CXX_COMPILER_ID", "Generic", "Uncertain"),
                   S("CMAKE_CXX_STANDARD", "17", "Likely"),
                   S("CMAKE_C_COMPILER_ID", "Generic", "Uncertain"),
                   S("CMAKE_C_STANDARD", "11", "Likely"),
                   S("CMAKE_BUILD_TYPE", "Release", "Uncertain"),
                   S("TRUE", "1", "Certain"), S("FALSE", "", "Certain"),
                   S("ON", "ON", "Certain"), S("OFF", "OFF", "Certain"),
                   S("YES", "1", "Certain"), S("NO", "", "Certain")}
        os == CASE platform = "Windows" ->
                       {S("WIN32", "1", "Certain"), S("WINDOWS", "1", "Certain"),
                        S("UNIX", "", "Certain"), S("APPLE", "", "Certain"),
                        S("LINUX", "", "Certain")}
                [] platform = "Apple" ->
                       {S("APPLE", "1", "Certain"), S("UNIX", "1", "Certain"),
                        S("DARWIN", "1", "Certain"), S("WIN32", "", "Certain"),
                        S("WINDOWS", "", "Certain"), S("LINUX", "", "Certain")}
                [] OTHER ->
                       {S("UNIX", "1", "Certain"), S("LINUX", "1", "Certain"),
                        S("WIN32", "", "Certain"), S("WINDOWS", "", "Certain"),
                        S("APPLE", "", "Certain")}
        all == common \cup os
    IN  [n \in {e[1] : e \in all} |-> (CHOOSE e \in all : e[1] = n)[2]]

initialize_builtin_variables(C, platform) ==
    [C EXCEPT !.variables_ =
        [n \in DOMAIN @ \cup DOMAIN BuiltinVariables(platform) |->
            IF n \in DOMAIN BuiltinVariables(platform)
            THEN BuiltinVariables(platform)[n] ELSE @[n]]]

RECURSIVE NatToChars(_)
NatToChars(n) ==
    IF n < 10 THEN <<<<"0", "1", "2", "3", "4", "5", "6", "7", "8", "9">>[n + 1]>>
    ELSE Append(NatToChars(n \div 10),
                <<"0", "1", "2", "3", "4", "5", "6", "7", "8", "9">>[(n % 10) + 1])

\* operator<<(ostream, double) for a number of at most six significant
\* digits: no exponent, no trailing zeros
double_to_string(d) ==
    (IF d.neg /\ (d.ip # 0 \/ d.fp # <<>>) THEN <<"-">> ELSE <<>>)
    \o NatToChars(d.ip) \o (IF d.fp # <<>> THEN <<".">> \o d.fp ELSE <<>>)

RECURSIVE join(_, _)
join(items, sep) ==
    IF items = <<>> THEN <<>>
    ELSE IF Len(items) = 1 THEN items[1]
    ELSE items[1] \o sep \o join(Tail(items), sep)

to_string(value) ==
    CASE value.kind = "string" -> value.v
      [] value.kind = "bool" -> IF value.v THEN Str("TRUE") ELSE Str("FALSE")
      [] value.kind = "double" -> double_to_string(value.v)
      [] value.kind = "list" -> join(value.v, <<";">>)

is_truthy(value) ==
    CASE value.kind = "string" ->
             /\ value.v # <<>>
             /\ value.v \notin {Str("0"), Str("OFF"), Str("NO"), Str("FALSE"), Str("N"),
                                Str("IGNORE"), Str("NOTFOUND")}
             /\ ~ends_with(value.v, Str("-NOTFOUND"))
      [] value.kind = "bool" -> value.v
      [] value.kind = "double" -> value.v.ip # 0 \/ value.v.fp # <<>>
      [] value.kind = "list" -> value.v # <<>>

(***************************************************************************)
(* Evaluator (src/src/analyzer/cmake_evaluator.cpp).  An evaluating        *)
(* operator returns [st, C, ...]: st is "ok" (a value and a confidence),   *)
(* "err" (an AnalysisError), "throw" (an exception leaves evaluate) or     *)
(* "hang" (a loop that no longer advances).                                *)
(***************************************************************************)
Value(C, value, confidence) ==
    [st |-> "ok", C |-> C, value |-> value, confidence |-> confidence]
AnalysisError(C, message) == [st |-> "err", C |-> C, error |-> message]
Throw(C, what) == [st |-> "throw", C |-> C, what |-> what]

Abnormal == {"throw", "hang"}

\* the call returned (no exception left it, no loop of it runs for ever):
\* F of what it returned
Returned(r, F(_)) == IF r.st \in Abnormal THEN r ELSE F(r)

VarRef(name) == <<"$", "{">> \o name \o <<"}">>    \* fmt::format("${{{}}}", name)

expand_variable_reference(C, var_name) ==
    IF starts_with(var_name, Str("ENV{")) /\ ends_with(var_name, Str("}"))
    THEN [ok |-> TRUE, value |-> VarRef(var_name)]
    ELSE IF has_variable(C, var_name)
    THEN [ok |-> TRUE, value |-> to_string(get_variable(C, var_name).value)]
    ELSE IF has_cache_variable(C, var_name)
    THEN [ok |-> TRUE, value |-> to_string(get_cache_variable(C, var_name).value)]
    ELSE [ok |-> FALSE]

\* the 1-based indices i > start of str where \$\{([^}]+)\} matches
MatchStarts(str, start) ==
    {i \in (start + 1)..(Len(str) - 3) :
        /\ str[i] = "$" /\ str[i + 1] = "{" /\ str[i + 2] # "}"
        /\ FirstClose(str, i + 2) # 0}

\* the match that starts at index i: 0-based position, length and group 1
MatchAt(str, i) ==
    [found |-> TRUE, position |-> i - 1, length |-> FirstClose(str, i + 2) - i + 1,
     name |-> SubSeq(str, i + 2, FirstClose(str, i + 2) - 1)]

\* regex_search for \$\{([^}]+)\} in str from offset start: the leftmost match
var_pattern_match(str, start) ==
    IF MatchStarts(str, start) = {} THEN [found |-> FALSE]
    ELSE MatchAt(str, CHOOSE i \in MatchStarts(str, start) :
                          \A k \in MatchStarts(str, start) : i <= k)

\* std::string::replace(pos, len, with) for pos <= size
replace(str, pos, len, with) ==
    SubSeq(str, 1, pos) \o with \o SubSeq(str, pos + Min(len, Len(str) - pos) + 1, Len(str))

\* interpolate_string's loop.  The search runs over str, the replacement is
\* made in result at the offset found in str, and the search resumes at that
\* offset plus the length of the expansion: an empty expansion is found again
\* for ever, an offset past the end of result makes replace throw, and a
\* resumption past the end of str is an invalid iterator, after which the
\* build either fails (C.past_end = "fail") or stops searching ("stop").
RECURSIVE interpolate_loop(_, _, _, _)
interpolate_loop(C, str, result, search_start) ==
    Bind(var_pattern_match(str, search_start), LAMBDA smatch :
    IF ~smatch.found THEN [st |-> "ok", value |-> result]
    ELSE Bind(expand_variable_reference(C, smatch.name), LAMBDA expanded :
         IF ~expanded.ok
         THEN interpolate_loop(C, str, result, smatch.position + smatch.length)
         ELSE IF smatch.position > Len(result) THEN [st |-> "throw"]
         ELSE IF expanded.value = <<>> THEN [st |-> "hang"]
         ELSE IF smatch.position + Len(expanded.value) > Len(str)
         THEN IF C.past_end = "stop"
              THEN [st |-> "ok",
                    value |-> replace(result, smatch.position, smatch.length, expanded.value)]
              ELSE [st |-> "throw"]
         ELSE interpolate_loop(C, str,
                  replace(result, smatch.position, smatch.length, expanded.value),
                  smatch.position + Len(expanded.value))))

\* never an error: a reference that cannot be expanded is skipped
interpolate_string(C, str) == interpolate_loop(C, str, str, 0)

RECURSIVE evaluate(_, _)

\* for (stmt : statements) evaluate(*stmt);  each result is dropped
RECURSIVE evaluate_statements(_, _)
evaluate_statements(C, statements) ==
    IF statements = <<>> THEN [st |-> "ok", C |-> C]
    ELSE Returned(evaluate(C, Head(statements)), LAMBDA r :
             evaluate_statements(r.C, Tail(statements)))

\* the loop of evaluate_set_command and visit(ListExpression): the strings
\* of the elements and the std::min of their confidences
RECURSIVE evaluate_list(_, _, _, _)
evaluate_list(C, nodes, list_values, min_confidence) ==
    IF nodes = <<>> THEN Value(C, [kind |-> "list", v |-> list_values], min_confidence)
    ELSE Returned(evaluate(C, Head(nodes)), LAMBDA r :
             IF r.st = "err"
             THEN Value(r.C, [kind |-> "list", v |-> list_values], "Unknown")
             ELSE evaluate_list(r.C, Tail(nodes), Append(list_values, to_string(r.value)),
                                std_min(min_confidence, r.confidence)))

\* the strings of the arguments that evaluate to a value, in order
RECURSIVE evaluate_strings(_, _, _)
evaluate_strings(C, nodes, strings) ==
    IF nodes = <<>> THEN [st |-> "ok", C |-> C, strings |-> strings]
    ELSE Returned(evaluate(C, Head(nodes)), LAMBDA r :
             evaluate_strings(r.C, Tail(nodes),
                              IF r.st = "ok" THEN Append(strings, to_string(r.value))
                              ELSE strings))

Done(C) == Value(C, StringValue(<<>>), "Certain")

\* context_.set_variable(name, r.value, r.confidence) if r holds a value
set_if_value(r, name) ==
    IF r.st = "ok" THEN Done(set_variable(r.C, name, r.value, r.confidence)) ELSE Done(r.C)

evaluate_set_command(C, cmd) ==
    IF Len(cmd.arguments) < 2 THEN AnalysisError(C, "set() requires at least 2 arguments")
    ELSE Returned(evaluate(C, cmd.arguments[1]), LAMBDA name_result :
         IF name_result.st = "err" \/ name_result.confidence # "Certain"
         THEN AnalysisError(name_result.C, "Cannot determine variable name")
         ELSE IF name_result.value.kind # "string"
         THEN Throw(name_result.C, "bad_variant_access")
         ELSE IF Len(cmd.arguments) = 2
         THEN Returned(evaluate(name_result.C, cmd.arguments[2]), LAMBDA value_result :
                  set_if_value(value_result, name_result.value.v))
         ELSE Returned(evaluate_list(name_result.C, Tail(cmd.arguments), <<>>, "Certain"),
                  LAMBDA list : set_if_value(list, name_result.value.v)))

\* the index (1-based) of the argument after the first of args[1..n-1] that
\* evaluates to "VERSION", or 0
RECURSIVE version_index(_, _, _)
version_index(C, args, i) ==
    IF i > Len(args) - 1 THEN [st |-> "ok", C |-> C, idx |-> 0]
    ELSE Returned(evaluate(C, args[i]), LAMBDA keyword :
             IF keyword.st = "ok" /\ to_string(keyword.value) = Str("VERSION")
             THEN [st |-> "ok", C |-> keyword.C, idx |-> i + 1]
             ELSE version_index(keyword.C, args, i + 1))

evaluate_cmake_minimum_required(C, cmd) ==
    IF Len(cmd.arguments) < 2
    THEN AnalysisError(C, "cmake_minimum_required() requires VERSION argument")
    ELSE Returned(version_index(C, cmd.arguments, 1), LAMBDA found :
         IF found.idx = 0 THEN Done(found.C)
         ELSE Returned(evaluate(found.C, cmd.arguments[found.idx]), LAMBDA version :
              IF version.st = "ok"
              THEN Done(set_variable(version.C, Str("CMAKE_MINIMUM_REQUIRED_VERSION"),
                                     StringValue(to_string(version.value)), "Certain"))
              ELSE Done(version.C)))

\* r holds a value whose string is one of ON, TRUE, YES, 1
is_on(r) ==
    r.st = "ok" /\ to_string(r.value) \in {Str("ON"), Str("TRUE"), Str("YES"), Str("1")}

\* context_.set_cache_variable(option_name, default_value ? "ON" : "OFF", Uncertain)
set_option(C, option_name, default_value) ==
    Done(set_cache_variable(C, option_name,
             StringValue(IF default_value THEN Str("ON") ELSE Str("OFF")), "Uncertain"))

evaluate_option_command(C, cmd) ==
    IF Len(cmd.arguments) < 2 THEN AnalysisError(C, "option() requires at least 2 arguments")
    ELSE Then(evaluate(C, cmd.arguments[1]), LAMBDA name_result :
         IF Len(cmd.arguments) >= 3
         THEN Returned(evaluate(name_result.C, cmd.arguments[Len(cmd.arguments)]),
                  LAMBDA value_result :
                      set_option(value_result.C, to_string(name_result.value),
                                 is_on(value_result)))
         ELSE set_option(name_result.C, to_string(name_result.value), FALSE))

\* PROJECT_NAME and CMAKE_PROJECT_NAME, both project_name and Certain
set_project_name(C, project_name) ==
    set_variable(set_variable(C, Str("PROJECT_NAME"), project_name, "Certain"),
                 Str("CMAKE_PROJECT_NAME"), project_name, "Certain")

evaluate_project_command(C, cmd) ==
    IF cmd.arguments = <<>> THEN Done(C)
    ELSE Returned(evaluate(C, cmd.arguments[1]), LAMBDA name_result :
         IF name_result.st = "ok"
         THEN Done(set_project_name(name_result.C,
                                    StringValue(to_string(name_result.value))))
         ELSE Done(name_result.C))

Target(name, type) ==
    [name |-> name, type |-> type, sources |-> <<>>, include_directories |-> <<>>,
     compile_definitions |-> <<>>, link_libraries |-> <<>>]

\* the sources from args[source_start ..] on, then context_.add_target(target)
add_with_sources(C, target, args, source_start) ==
    Returned(evaluate_strings(C, SubSeq(args, source_start, Len(args)), <<>>),
        LAMBDA sources :
            Done(add_target(sources.C, [target EXCEPT !.sources = sources.strings])))

\* the library type a type keyword names, or "" for any other string
library_type(type_str) ==
    CASE type_str = Str("SHARED") -> "SharedLibrary"
      [] type_str = Str("STATIC") -> "StaticLibrary"
      [] type_str = Str("INTERFACE") -> "InterfaceLibrary"
      [] OTHER -> ""

\* add_library once its second argument is evaluated to type_result
add_library_typed(type_result, target_name, args) ==
    IF type_result.st = "ok" /\ library_type(to_string(type_result.value)) # ""
    THEN add_with_sources(type_result.C,
             Target(target_name, library_type(to_string(type_result.value))), args, 3)
    ELSE add_with_sources(type_result.C, Target(target_name, "StaticLibrary"), args, 2)

evaluate_add_library_command(C, cmd) ==
    IF cmd.arguments = <<>> THEN AnalysisError(C, "add_library() requires target name")
    ELSE Then(evaluate(C, cmd.arguments[1]), LAMBDA name_result :
         IF Len(cmd.arguments) > 1
         THEN Returned(evaluate(name_result.C, cmd.arguments[2]), LAMBDA type_result :
                  add_library_typed(type_result, to_string(name_result.value),
                                    cmd.arguments))
         ELSE add_with_sources(name_result.C,
                  Target(to_string(name_result.value), "StaticLibrary"),
                  cmd.arguments, 2))

evaluate_add_executable_command(C, cmd) ==
    IF cmd.arguments = <<>> THEN AnalysisError(C, "add_executable() requires target name")
    ELSE Then(evaluate(C, cmd.arguments[1]), LAMBDA name_result :
         add_with_sources(name_result.C,
             Target(to_string(name_result.value), "ExecutableTarget"), cmd.arguments, 2))

VisibilityKeywords == {Str("PUBLIC"), Str("PRIVATE"), Str("INTERFACE")}

\* the strings but the visibility keywords, in order
skip_visibility(strings) == SelectSeq(strings, LAMBDA x : x \notin VisibilityKeywords)

\* index of the first target called target_name, or 0
find_target(C, target_name) ==
    IF \E i \in 1..Len(C.targets_) : C.targets_[i].name = target_name
    THEN CHOOSE i \in 1..Len(C.targets_) :
             /\ C.targets_[i].name = target_name
             /\ \A k \in 1..(i - 1) : C.targets_[k].name # target_name
    ELSE 0

\* the loops of the three target_* commands, with a target that is not
\* found declared on the spot
push_back_or_declare(C, target_name, args, field) ==
    IF find_target(C, target_name) = 0
    THEN Done(add_target(C, Target(target_name, "Unknown")))
    ELSE Returned(evaluate_strings(C, Tail(args), <<>>), LAMBDA items :
             Done([items.C EXCEPT !.targets_[find_target(C, target_name)][field] =
                                      @ \o skip_visibility(items.strings)]))

\* the loops of the three target_* commands: the first target called
\* target_name, if any, gets the strings of args[2..] but the visibility
\* keywords pushed back to the given field
push_back_to_target(C, target_name, args, field) ==
    IF find_target(C, target_name) = 0 THEN Done(C)
    ELSE Returned(evaluate_strings(C, Tail(args), <<>>), LAMBDA items :
             Done([items.C EXCEPT !.targets_[find_target(C, target_name)][field] =
                                      @ \o skip_visibility(items.strings)]))

evaluate_target_include_directories_command(C, cmd) ==
    IF Len(cmd.arguments) < 2
    THEN AnalysisError(C, "target_include_directories() requires target and directories")
    ELSE Then(evaluate(C, cmd.arguments[1]), LAMBDA name_result :
         push_back_to_target(name_result.C, to_string(name_result.value), cmd.arguments,
                             "include_directories"))

evaluate_target_compile_definitions_command(C, cmd) ==
    IF Len(cmd.arguments) < 2
    THEN AnalysisError(C, "target_compile_definitions() requires target and definitions")
    ELSE Then(evaluate(C, cmd.arguments[1]), LAMBDA name_result :
         push_back_to_target(name_result.C, to_string(name_result.value), cmd.arguments,
                             "compile_definitions"))

\* the libraries land in the field of the command this one was copied from
link_libraries_into_include_directories(C, cmd) ==
    evaluate_target_include_directories_command(C, cmd)

evaluate_target_link_libraries_command(C, cmd) ==
    IF Len(cmd.arguments) < 2
    THEN AnalysisError(C, "target_link_libraries() requires target and libraries")
    ELSE Then(evaluate(C, cmd.arguments[1]), LAMBDA name_result :
         push_back_to_target(name_result.C, to_string(name_result.value), cmd.arguments,
                             "link_libraries"))

evaluate_condition(C, condition) ==
    Then(evaluate(C, condition), LAMBDA r :
        [st |-> "ok", C |-> r.C, truth |-> is_truthy(r.value)])

\* the statements of branches from index i up to the next ElseIfStatement
RECURSIVE elseif_body(_, _)
elseif_body(branches, i) ==
    IF i <= Len(branches) /\ branches[i].type # "ElseIfStatement"
    THEN <<branches[i]>> \o elseif_body(branches, i + 1) ELSE <<>>

\* evaluated = true after the statements of a taken elseif
taken(r) == [st |-> "ok", C |-> r.C, evaluated |-> TRUE]

\* visit(IfStatement)'s loop over elseif_branches from index i: only an
\* element that is an ElseIfStatement is taken as a condition
RECURSIVE elseif_loop(_, _, _)
elseif_loop(C, branches, i) ==
    IF i > Len(branches) THEN [st |-> "ok", C |-> C, evaluated |-> FALSE]
    ELSE IF branches[i].type = "ElseIfStatement"
    THEN Returned(evaluate_condition(C, branches[i].condition), LAMBDA elseif_cond :
             IF elseif_cond.st = "ok" /\ elseif_cond.truth
             THEN Returned(evaluate_statements(elseif_cond.C, elseif_body(branches, i + 1)),
                           taken)
             ELSE elseif_loop(elseif_cond.C, branches,
                              i + 1 + Len(elseif_body(branches, i + 1))))
    ELSE elseif_loop(C, branches, i + 1)

\* result_ after a loop over statements: "" and Certain
statements_done(r) == Done(r.C)

visit_IfStatement(C, node) ==
    Returned(evaluate_condition(C, node.condition), LAMBDA cond_result :
        IF cond_result.st = "err" THEN Done(cond_result.C)
        ELSE IF cond_result.truth
        THEN Returned(evaluate_statements(cond_result.C, node.then_branch), statements_done)
        ELSE Returned(elseif_loop(cond_result.C, node.elseif_branches, 1), LAMBDA elseifs :
             IF ~elseifs.evaluated /\ node.else_branch # <<>>
             THEN Returned(evaluate_statements(elseifs.C, node.else_branch),
                           statements_done)
             ELSE Done(elseifs.C)))

visit_CommandCall(C, node) ==
    CASE node.name = Str("set") -> evaluate_set_command(C, node)
      [] node.name = Str("if") -> Done(C)
      [] node.name = Str("cmake_minimum_required") -> evaluate_cmake_minimum_required(C, node)
      [] node.name = Str("option") -> evaluate_option_command(C, node)
      [] node.name = Str("project") -> evaluate_project_command(C, node)
      [] node.name = Str("message") -> Done(C)
      [] node.name = Str("add_library") -> evaluate_add_library_command(C, node)
      [] node.name = Str("add_executable") -> evaluate_add_executable_command(C, node)
      [] node.name = Str("target_include_directories") ->
             evaluate_target_include_directories_command(C, node)
      [] node.name = Str("target_link_libraries") ->
             evaluate_target_link_libraries_command(C, node)
      [] node.name = Str("target_compile_definitions") ->
             evaluate_target_compile_definitions_command(C, node)
      [] OTHER -> Value(C, StringValue(<<>>), "Unknown")

\* visit(StringLiteral) once interpolate_string returned
visit_StringLiteral(C, node, interpolated) ==
    IF interpolated.st \in Abnormal THEN [st |-> interpolated.st, C |-> C]
    ELSE IF interpolated.st = "ok"
    THEN Value(C, StringValue(interpolated.value), "Certain")
    ELSE Value(C, StringValue(node.value), "Uncertain")

visit_Variable(C, node) ==
    IF has_variable(C, node.name)
    THEN Value(C, get_variable(C, node.name).value, get_variable(C, node.name).confidence)
    ELSE Value(C, StringValue(VarRef(node.name)), "Unknown")

\* CMakeEvaluator::evaluate: node.accept(*this), by the node's class
evaluate(C, node) ==
    CASE node.type = "StringLiteral" ->
             visit_StringLiteral(C, node, interpolate_string(C, node.value))
      [] node.type = "NumberLiteral" -> Value(C, [kind |-> "double", v |-> node.value], "Certain")
      [] node.type = "BooleanLiteral" -> Value(C, [kind |-> "bool", v |-> node.value], "Certain")
      [] node.type = "Variable" -> visit_Variable(C, node)
      [] node.type = "CommandCall" -> visit_CommandCall(C, node)
      [] node.type = "IfStatement" -> visit_IfStatement(C, node)
      [] node.type = "ListExpression" -> evaluate_list(C, node.elements, <<>>, "Certain")
      [] node.type = "GeneratorExpression" ->
             Value(C, StringValue(VarRef(node.expression)), "Unknown")
      [] node.type = "BracketExpression" -> evaluate(C, node.content)
      [] node.type \in {"Block", "File"} ->
             Returned(evaluate_statements(C, node.statements), statements_done)
      [] node.type = "Identifier" -> Value(C, StringValue(node.name), "Certain")
      [] node.type = "ErrorNode" -> AnalysisError(C, node.message)
      [] OTHER -> Value(C, StringValue(<<>>), "Unknown")

(***************************************************************************)
(* The evaluation of a parsed file, one top-level statement per step (the  *)
(* loop of visit(File)), against the context CMakeFileEvaluator prepares.  *)
(***************************************************************************)
Context(past_end) ==
    [variables_ |-> variables_, cache_variables_ |-> cache_variables_,
     targets_ |-> targets_, past_end |-> past_end]

SetContext(C) ==
    /\ variables_' = C.variables_
    /\ cache_variables_' = C.cache_variables_
    /\ targets_' = C.targets_

\* what evaluate returned: a Result<EvaluatedValue, AnalysisError>
ResultOf(r) ==
    IF r.st = "ok" THEN [st |-> "ok", value |-> r.value, confidence |-> r.confidence]
    ELSE IF r.st = "err" THEN [st |-> "err", error |-> r.error]
    ELSE [st |-> r.st]

\* the evaluator after evaluate(node) came to r
Evaluated(node, r) ==
    /\ SetContext(r.C)
    /\ result_' = ResultOf(r)
    /\ evaluated' = Append(evaluated, node)
    /\ pc' = IF r.st = "throw" THEN "crashed"
             ELSE IF r.st = "hang" THEN "hang" ELSE pc

\* evaluator.evaluate(node) as a step of the driver
Evaluate(node) ==
    \E past_end \in {"stop", "fail"} :
        Evaluated(node, evaluate(Context(past_end), node))

EvaluateStatement ==
    /\ pc = "parsed"
    /\ parse_result.st = "ok"
    /\ Len(evaluated) < Len(parse_result.statements)
    /\ Evaluate(parse_result.statements[Len(evaluated) + 1])
    /\ UNCHANGED <<parserVars, host, downstreamVars>>

\* the strings of the variables of a map: analysis.global_variables[var_name] =
\* to_string(var_value->value)
strings_of(variables) == [n \in DOMAIN variables |-> to_string(variables[n].value)]

\* to_string of the variable, "" when it is not defined
string_or_empty(C, name) ==
    IF has_variable(C, name) THEN to_string(get_variable(C, name).value) ELSE <<>>

\* CMakeFileEvaluator::analyze once evaluate_file returned eval_result
analyze(C, eval_result) ==
    IF eval_result.st = "err" THEN [st |-> "err", error |-> eval_result.error]
    ELSE [st |-> "ok",
          project_name |-> string_or_empty(C, Str("PROJECT_NAME")),
          project_version |-> string_or_empty(C, Str("PROJECT_VERSION")),
          targets |-> C.targets_,
          global_variables |-> strings_of(C.variables_),
          cache_variables |-> strings_of(C.cache_variables_),
          warnings |-> <<>>]

\* visit(File) after its loop, and what evaluate_file and analyze make of it
\* visit(File) without its last assignment: the file's result is that of
\* its last statement
FileEvaluatedAsLastStatement ==
    /\ pc = "parsed"
    /\ parse_result.st = "ok"
    /\ Len(evaluated) = Len(parse_result.statements)
    /\ result_' = result_
    /\ analysis' = analyze(Context("stop"),
                           IF result_.st = "none" THEN ResultOf(Done(Context("stop")))
                           ELSE result_)
    /\ pc' = "done"
    /\ UNCHANGED <<parserVars, variables_, cache_variables_, targets_, evaluated, host,
                   otherVars>>

FileEvaluated ==
    /\ pc = "parsed"
    /\ parse_result.st = "ok"
    /\ Len(evaluated) = Len(parse_result.statements)
    /\ result_' = ResultOf(Done(Context("stop")))
    /\ analysis' = analyze(Context("stop"), ResultOf(Done(Context("stop"))))
    /\ pc' = "done"
    /\ UNCHANGED <<parserVars, variables_, cache_variables_, targets_, evaluated, host,
                   otherVars>>

(***************************************************************************)
(* Inputs.  A source file is one of the programs of the tests and of the   *)
(* documentation, or up to MaxFrags fragments written one after another.   *)
(***************************************************************************)
MaxFrags == 3

SimpleCommandCode == Str("add_library(mylib STATIC src/main.cpp)")

ErrorRecoveryCode ==
    Str("\n        add_library(mylib STATIC\n        # Missing closing paren\n")
    \o Str("        set(VAR value)\n")
    \o Str("        message(STATUS \"This should still parse\")\n    ")

PlatformBranchCode == Str("if(WIN32) set(LIB_TYPE SHARED) else() set(LIB_TYPE STATIC) endif()")

\* the same statements, one per line
PlatformBranchLines == Str("if(WIN32)\nset(LIB_TYPE SHARED)\nelse()\nset(LIB_TYPE STATIC)\nendif()")

InterpolationCode == Str("set(LIB_NAME ${PREFIX}_${SUFFIX})")

\* CMakeEvaluatorTest.OptionCommand, its first statement
OptionCode == Str("option(ENABLE_TESTS \"Enable testing\" ON)")

ProjectCode == Str("project(simple-library VERSION 1.0.0)")

\* the same statement, one argument per line
ProjectLines == Str("project(simple-library\nVERSION\n1.0.0)")

\* CMakeEvaluatorTest.CMakeMinimumRequired
MinimumRequiredCode == Str("cmake_minimum_required(VERSION 3.20)")

\* the same statement, one argument per line
MinimumRequiredLines == Str("cmake_minimum_required(VERSION\n3.20)")

\* a set without a value, which evaluates to an error, before and after a
\* well-formed set
ErrorFirstCode == Str("set(x)\nset(A\nb)")

ErrorLastCode == Str("set(A\nb)\nset(x)")

ElseIfTakenCode == Str("if(OFF)\nset(R\na)\nelseif(ON)\nset(R\nb)\nelse()\nset(R\nc)\nendif()")

ElseTakenCode == Str("if(OFF)\nset(R\na)\nelseif(OFF)\nset(R\nb)\nelse()\nset(R\nc)\nendif()")

Programs ==
    {SimpleCommandCode, ErrorRecoveryCode, PlatformBranchCode, PlatformBranchLines,
     InterpolationCode, ElseIfTakenCode, ElseTakenCode, OptionCode, ProjectCode,
     ProjectLines, MinimumRequiredCode, MinimumRequiredLines, ErrorFirstCode,
     ErrorLastCode}

Fragments == {Str("f(a)"), Str("f(a"), Str("\n"), Str(")"), Str("\\"), Str("x")}

RECURSIVE Flatten(_)
Flatten(seqs) == IF seqs = <<>> THEN <<>> ELSE Head(seqs) \o Flatten(Tail(seqs))

Sources ==
    Programs \cup {Flatten(f) : f \in UNION {[1..n -> Fragments] : n \in 0..MaxFrags}}

Hosts == {"Linux", "Windows", "Apple"}

\* the variables a caller defines before evaluating (PREFIX and SUFFIX)
Presets ==
    {<<>>,
     [n \in {Str("PREFIX"), Str("SUFFIX")} |->
         [value |-> StringValue(IF n = Str("PREFIX") THEN Str("my") ELSE Str("lib")),
          confidence |-> "Certain"]]}

InitParser ==
    /\ lexer_ = lex_all(source, 0)
    /\ token_buffer_ = <<>>
    /\ current_ = 0
    /\ panic_mode_ = FALSE
    /\ errors_ = <<>>
    /\ elements = <<>>
    /\ failed = 0
    /\ parse_result = [st |-> "none"]

InitContext(preset) ==
    /\ host \in Hosts
    /\ variables_ =
           [n \in DOMAIN preset \cup DOMAIN BuiltinVariables(host) |->
               IF n \in DOMAIN BuiltinVariables(host) THEN BuiltinVariables(host)[n]
               ELSE preset[n]]
    /\ cache_variables_ = <<>>
    /\ targets_ = <<>>
    /\ result_ = [st |-> "none"]
    /\ evaluated = <<>>
    /\ analysis = [st |-> "none"]

Init ==
    /\ source \in Sources
    /\ InitParser
    /\ \E preset \in Presets : InitContext(preset)
    /\ InitOther
    /\ pc = "parse"

Next == ParseFileElement \/ ParseFileReturn \/ EvaluateStatement \/ FileEvaluated

Spec == Init /\ [][Next]_vars

(***************************************************************************)
(* The evaluator on its own: a caller hands CMakeEvaluator::evaluate up to *)
(* MaxCalls nodes, one after another, against the context of a new         *)
(* CMakeFileEvaluator.  The nodes are ones the parser builds.              *)
(***************************************************************************)
MaxCalls == 3

Unquoted(s) == makeString(Str(s), FALSE)

Command(name, args) == makeCommand(Str(name), args)

UnresolvedLiteral == makeString(Str("${NAME}"), TRUE)

Literals ==
    {Unquoted("a"), UnresolvedLiteral, makeString(Str("${UNIX}"), TRUE),
     makeVariable(Str("NAME"))}

ListOfCertain == Command("set", <<Unquoted("V"), Unquoted("a"), Unquoted("b")>>)

ListWithUnknown ==
    Command("set", <<Unquoted("V"), Unquoted("a"), makeVariable(Str("NAME"))>>)

ListWithLikely ==
    Command("set", <<Unquoted("V"), Unquoted("a"), makeVariable(Str("CMAKE_CXX_STANDARD"))>>)

SetCommands ==
    {ListOfCertain, ListWithUnknown, ListWithLikely,
     Command("set", <<Unquoted("W"), UnresolvedLiteral>>)}

TargetDeclarations ==
    {Command("add_library", <<Unquoted("X"), Unquoted("STATIC"), Unquoted("x.c")>>),
     Command("add_executable", <<Unquoted("X"), Unquoted("main.c")>>),
     Command("add_library", <<Unquoted("Y")>>)}

LinkPrivate(target, library) ==
    Command("target_link_libraries", <<Unquoted(target), Unquoted("PRIVATE"), Unquoted(library)>>)

PropertySetters ==
    {LinkPrivate("X", "a"), LinkPrivate("X", "b"), LinkPrivate("Y", "a"),
     Command("target_include_directories", <<Unquoted("X"), Unquoted("PUBLIC"), Unquoted("inc")>>),
     Command("target_compile_definitions", <<Unquoted("X"), Unquoted("PRIVATE"), Unquoted("D")>>),
     Command("target_include_directories", <<Unquoted("Z"), Unquoted("PUBLIC"), Unquoted("inc")>>),
     Command("target_compile_definitions", <<Unquoted("Z"), Unquoted("PRIVATE"), Unquoted("D")>>)}

EvaluateLiteral ==
    /\ pc = "eval"
    /\ Len(evaluated) < MaxCalls
    /\ \E node \in Literals : Evaluate(node)
    /\ UNCHANGED <<parserVars, host, downstreamVars>>

EvaluateSet ==
    /\ pc = "eval"
    /\ Len(evaluated) < MaxCalls
    /\ \E node \in SetCommands : Evaluate(node)
    /\ UNCHANGED <<parserVars, host, downstreamVars>>

EvaluateAddTarget ==
    /\ pc = "eval"
    /\ Len(evaluated) < MaxCalls
    /\ \E node \in TargetDeclarations : Evaluate(node)
    /\ UNCHANGED <<parserVars, host, downstreamVars>>

EvaluateTargetProperty ==
    /\ pc = "eval"
    /\ Len(evaluated) < MaxCalls
    /\ \E node \in PropertySetters : Evaluate(node)
    /\ UNCHANGED <<parserVars, host, downstreamVars>>

InitEval ==
    /\ source = <<>>
    /\ InitParser
    /\ InitContext(<<>>)
    /\ InitOther
    /\ pc = "eval"

NextEval == EvaluateLiteral \/ EvaluateSet \/ EvaluateAddTarget \/ EvaluateTargetProperty

SpecEval == InitEval /\ [][NextEval]_vars

(***************************************************************************)
(* Scopes: a caller builds a tree of EvaluationContexts with               *)
(* create_child_scope and writes to them, up to MaxScopeOps calls.         *)
(***************************************************************************)
MaxScopes == 3

MaxScopeOps == 3

\* the parser, the evaluator and the analysis at rest
IdleOn(text) ==
    /\ source = text
    /\ InitParser
    /\ host = "Linux"
    /\ variables_ = <<>>
    /\ cache_variables_ = <<>>
    /\ targets_ = <<>>
    /\ result_ = [st |-> "none"]
    /\ evaluated = <<>>

Idle == IdleOn(<<>>)

idleVars == <<parserVars, contextVars, host, analysis, nestingVars, generatorVars,
              pipelineVars, lexerVars, aloneVars>>

\* EvaluationContext(parent): nothing of its own
EvaluationContext(parent) ==
    [variables_ |-> <<>>, cache_variables_ |-> <<>>, platform_checks_ |-> <<>>,
     targets_ |-> <<>>, parent_ |-> parent]

\* S[i].create_child_scope(): the new scope is the last of S
create_child_scope(S, i) == Append(S, EvaluationContext(i))

set_platform_check(C, check, result) ==
    [C EXCEPT !.platform_checks_ =
        [n \in DOMAIN @ \cup {check} |-> IF n = check THEN result ELSE @[n]]]

\* the scope's own set_variable, called where the name is not yet defined
\* in the scope: it updates the nearest enclosing scope that defines it
RECURSIVE set_in_defining_scope(_, _, _, _, _)
set_in_defining_scope(S, i, name, value, confidence) ==
    IF name \notin DOMAIN S[i].variables_ /\ S[i].parent_ # 0
       /\ name \in DOMAIN S[S[i].parent_].variables_
    THEN [S EXCEPT ![S[i].parent_] = set_variable(@, name, value, confidence)]
    ELSE [S EXCEPT ![i] = set_variable(@, name, value, confidence)]

\* S[i].set_variable(name, value, confidence)
scope_set_variable(S, i, name, value, confidence) ==
    [S EXCEPT ![i] = set_variable(@, name, value, confidence)]

\* S[i].set_cache_variable(name, value, confidence)
scope_set_cache_variable(S, i, name, value, confidence) ==
    [S EXCEPT ![i] = set_cache_variable(@, name, value, confidence)]

\* S[i].set_platform_check(check, result)
scope_set_platform_check(S, i, check, result) ==
    [S EXCEPT ![i] = set_platform_check(@, check, result)]

\* S[i].get_variable(name), a std::optional: <<>> or <<value>>
RECURSIVE scope_get_variable(_, _, _)
scope_get_variable(S, i, name) ==
    IF name \in DOMAIN S[i].variables_ THEN <<S[i].variables_[name]>>
    ELSE IF S[i].parent_ # 0 THEN scope_get_variable(S, S[i].parent_, name)
    ELSE <<>>

\* S[i].get_cache_variable(name)
scope_get_cache_variable(S, i, name) ==
    IF name \in DOMAIN S[i].cache_variables_ THEN <<S[i].cache_variables_[name]>> ELSE <<>>

\* S[i].get_platform_check(check)
RECURSIVE scope_get_platform_check(_, _, _)
scope_get_platform_check(S, i, check) ==
    IF check \in DOMAIN S[i].platform_checks_ THEN <<S[i].platform_checks_[check]>>
    ELSE IF S[i].parent_ # 0 THEN scope_get_platform_check(S, S[i].parent_, check)
    ELSE <<>>

ScopeNames == {Str("A")}

ScopeValues == {StringValue(Str("1")), StringValue(Str("2"))}

\* the call is recorded with the scope it was made on
Called(op, i, name, value) ==
    writes' = Append(writes, [op |-> op, scope |-> i, name |-> name, value |-> value])

CreateChildScope ==
    /\ pc = "scope"
    /\ Len(writes) < MaxScopeOps
    /\ Len(scopes) < MaxScopes
    /\ \E i \in 1..Len(scopes) :
           /\ scopes' = create_child_scope(scopes, i)
           /\ Called("create_child_scope", Len(scopes) + 1, <<>>, <<>>)
    /\ UNCHANGED <<idleVars, pc>>

SetVariable ==
    /\ pc = "scope"
    /\ Len(writes) < MaxScopeOps
    /\ \E i \in 1..Len(scopes), name \in ScopeNames, value \in ScopeValues :
           /\ scopes' = scope_set_variable(scopes, i, name, value, "Certain")
           /\ Called("set_variable", i, name, [value |-> value, confidence |-> "Certain"])
    /\ UNCHANGED <<idleVars, pc>>

SetCacheVariable ==
    /\ pc = "scope"
    /\ Len(writes) < MaxScopeOps
    /\ \E i \in 1..Len(scopes), name \in ScopeNames, value \in ScopeValues :
           /\ scopes' = scope_set_cache_variable(scopes, i, name, value, "Certain")
           /\ Called("set_cache_variable", i, name,
                     [value |-> value, confidence |-> "Certain"])
    /\ UNCHANGED <<idleVars, pc>>

SetPlatformCheck ==
    /\ pc = "scope"
    /\ Len(writes) < MaxScopeOps
    /\ \E i \in 1..Len(scopes), check \in ScopeNames, result \in BOOLEAN :
           /\ scopes' = scope_set_platform_check(scopes, i, check, result)
           /\ Called("set_platform_check", i, check, result)
    /\ UNCHANGED <<idleVars, pc>>

InitScope ==
    /\ Idle
    /\ analysis = [st |-> "none"]
    /\ InitNesting
    /\ InitGenerators
    /\ InitPipelines
    /\ InitLexers
    /\ InitAlone
    /\ scopes = <<EvaluationContext(0)>>
    /\ writes = <<>>
    /\ pc = "scope"

NextScope == CreateChildScope \/ SetVariable \/ SetCacheVariable \/ SetPlatformCheck

SpecScope == InitScope /\ [][NextScope]_vars

(***************************************************************************)
(* Nesting: evaluate is called on a BracketExpression whose content is    *)
(* again a BracketExpression, and so on down to a string, one call or      *)
(* return per step.  The descent is followed one level past                *)
(* max_recursion_depth_.                                                   *)
(***************************************************************************)
max_recursion_depth_ == 100

MaxNesting == max_recursion_depth_ + 1

\* result_ at the start of evaluate
NotEvaluated == [st |-> "err", error |-> Str("Not evaluated")]

\* evaluate(BracketExpression) up to visit's call of evaluate(*node.content())
EnterBracket ==
    /\ pc = "eval"
    /\ evaluated = <<>>
    /\ in_progress < MaxNesting
    /\ in_progress' = in_progress + 1
    /\ result_' = NotEvaluated
    /\ UNCHANGED <<parserVars, variables_, cache_variables_, targets_, evaluated, host,
                   analysis, scopeVars, generatorVars, pipelineVars, lexerVars, aloneVars, pc>>

\* the innermost content is a string: its evaluate is called and returns
EvaluateContent ==
    /\ pc = "eval"
    /\ evaluated = <<>>
    /\ Evaluate(Unquoted("x"))
    /\ UNCHANGED <<parserVars, host, downstreamVars>>

\* visit(BracketExpression) after the call: result_ = content_result, and
\* evaluate returns result_
ReturnBracket ==
    /\ pc = "eval"
    /\ evaluated # <<>>
    /\ in_progress > 0
    /\ in_progress' = in_progress - 1
    /\ UNCHANGED <<parserVars, contextVars, host, analysis, scopeVars, generatorVars,
                   pipelineVars, lexerVars, aloneVars, pc>>

NextNesting == EnterBracket \/ EvaluateContent \/ ReturnBracket

SpecNesting == InitEval /\ [][NextNesting]_vars

(***************************************************************************)
(* Generation: Generator::generate on a ProjectAnalysis, one directory of  *)
(* targets_by_dir per step, by a Generator that writes and by one whose    *)
(* config_.dry_run is set.  A path is a sequence of components.            *)
(***************************************************************************)
MaxTargets == 2

\* a ProjectAnalysis as its constructor leaves it
ProjectAnalysis ==
    [st |-> "ok", project_name |-> <<>>, project_version |-> <<>>, targets |-> <<>>,
     global_variables |-> <<>>, cache_variables |-> <<>>, warnings |-> <<>>]

current_path == <<"work">>

output_directory == <<"out">>

\* the directories targets are declared in, in the order of std::map<fs::path, ...>
SourceDirectories == <<current_path \o <<"app">>, current_path \o <<"lib">>>>

\* fs::relative(dir, base) for a dir at or below base
relative(dir, base) ==
    IF dir = base THEN <<".">> ELSE SubSeq(dir, Len(base) + 1, Len(dir))

\* targets_by_dir: the directories that hold targets, each with its targets
\* in the order of analysis.targets
targets_by_dir(targets) ==
    SelectSeq([i \in 1..Len(SourceDirectories) |->
                  [dir |-> SourceDirectories[i],
                   targets |-> SelectSeq(targets, LAMBDA t :
                                   t.source_directory = SourceDirectories[i])]],
              LAMBDA group : group.targets # <<>>)

\* output_path of generate's loop for the directory dir
output_path(groups, dir) ==
    IF Len(groups) > 1
    THEN output_directory \o relative(dir, current_path) \o <<"BUCK">>
    ELSE output_directory \o <<"BUCK">>

determine_rule_type(target) ==
    IF target.type = "ExecutableTarget" THEN "CxxBinary"
    ELSE IF target.type \in {"StaticLibrary", "SharedLibrary"} THEN "CxxLibrary"
    ELSE IF target.type = "InterfaceLibrary" THEN "CxxLibrary"
    ELSE IF target.type = "CustomTarget" THEN "FileGroup"
    ELSE "Unknown"

\* normalize_target_name without the prefix for a leading digit
normalize_target_name_unprefixed(cmake_name) ==
    [i \in 1..Len(cmake_name) |->
        IF ~isalnum(cmake_name[i]) /\ cmake_name[i] \notin {"_", "-"}
        THEN "_" ELSE cmake_name[i]]

normalize_target_name(cmake_name) ==
    Bind([i \in 1..Len(cmake_name) |->
             IF ~isalnum(cmake_name[i]) /\ cmake_name[i] \notin {"_", "-"}
             THEN "_" ELSE cmake_name[i]],
         LAMBDA normalized :
             IF normalized # <<>> /\ isdigit(normalized[1])
             THEN Str("lib_") \o normalized ELSE normalized)

\* the name and the rule type of TargetMapper::map_cmake_target's MappedTarget
map_cmake_target(target) ==
    [name |-> normalize_target_name(target.name),
     rule_type |-> determine_rule_type(target)]

\* the rule types register_default_templates registers
templates_ == {"CxxLibrary", "CxxBinary", "CxxTest"}

get_template(type) == IF type \in templates_ THEN type ELSE "nullptr"

GenerationError(category) == [st |-> "err", category |-> category]

\* write_file without its dry_run test
write_file_always(config, fsys, path, content) ==
    IF path \in fsys.unwritable
    THEN [st |-> "err", category |-> "FileWriteError", filesystem |-> fsys]
    ELSE [st |-> "ok",
          filesystem |-> [fsys EXCEPT !.files =
              [f \in DOMAIN @ \cup {path} |-> IF f = path THEN content ELSE @[f]]]]

\* Generator::write_file: what it returns, and the filesystem after it
write_file(config, fsys, path, content) ==
    IF config.dry_run THEN [st |-> "ok", filesystem |-> fsys]
    ELSE IF path \in fsys.unwritable
    THEN [st |-> "err", category |-> "FileWriteError", filesystem |-> fsys]
    ELSE [st |-> "ok",
          filesystem |-> [fsys EXCEPT !.files =
              [f \in DOMAIN @ \cup {path} |-> IF f = path THEN content ELSE @[f]]]]

\* the load statement and the rules the StarlarkWriter is given
buck_content(targets) ==
    [load |-> {map_cmake_target(targets[i]).rule_type : i \in 1..Len(targets)}
                  \cap templates_,
     rules |-> [i \in 1..Len(targets) |-> map_cmake_target(targets[i])]]

generate_buck_file(config, fsys, path, targets) ==
    IF \E i \in 1..Len(targets) :
           get_template(map_cmake_target(targets[i]).rule_type) = "nullptr"
    THEN [st |-> "err", category |-> "MissingTemplate", filesystem |-> fsys]
    ELSE write_file(config, fsys, path, buck_content(targets))

buckconfig_path == output_directory \o <<".buckconfig">>

generate_buckconfig(config, fsys) ==
    write_file(config, fsys, buckconfig_path, "buckconfig")

\* Generator(config) at the start of generate
Generator(config) ==
    [config_ |-> config, st |-> "generating", directories |-> 0,
     generated_files |-> <<>>, targets_processed |-> 0, error |-> "none"]

\* one iteration of generate's loop over targets_by_dir
GenerateBuckFile ==
    /\ pc = "generate"
    /\ \E dry \in DOMAIN generators :
        Bind(targets_by_dir(analysis.targets), LAMBDA groups :
            /\ generators[dry].st = "generating"
            /\ generators[dry].directories < Len(groups)
            /\ Bind(groups[generators[dry].directories + 1], LAMBDA group :
               Bind(generate_buck_file(generators[dry].config_, filesystem,
                                       output_path(groups, group.dir), group.targets),
                    LAMBDA buck_file_result :
                   /\ filesystem' = buck_file_result.filesystem
                   /\ generators' = [generators EXCEPT ![dry] =
                          IF buck_file_result.st = "err"
                          THEN [@ EXCEPT !.st = "err", !.error = buck_file_result.category]
                          ELSE [@ EXCEPT !.directories = @ + 1,
                                         !.generated_files =
                                             Append(@, output_path(groups, group.dir)),
                                         !.targets_processed = @ + Len(group.targets)]])))
    /\ UNCHANGED <<parserVars, contextVars, host, analysis, scopeVars, nestingVars,
                   pipelineVars, lexerVars, aloneVars, pc>>

\* the end of generate: .buckconfig, and the result
GenerateBuckconfig ==
    /\ pc = "generate"
    /\ \E dry \in DOMAIN generators :
        /\ generators[dry].st = "generating"
        /\ generators[dry].directories = Len(targets_by_dir(analysis.targets))
        /\ Bind(generate_buckconfig(generators[dry].config_, filesystem),
                LAMBDA config_result :
               /\ filesystem' = config_result.filesystem
               /\ generators' = [generators EXCEPT ![dry] =
                      IF config_result.st = "err"
                      THEN [@ EXCEPT !.st = "err", !.error = config_result.category]
                      ELSE [@ EXCEPT !.st = "ok",
                                     !.generated_files = Append(@, buckconfig_path)]])
    /\ UNCHANGED <<parserVars, contextVars, host, analysis, scopeVars, nestingVars,
                   pipelineVars, lexerVars, aloneVars, pc>>

TargetTypes == {"StaticLibrary", "ExecutableTarget", "CustomTarget"}

\* the targets of the analyses handed to generate
GeneratedTargets ==
    {[name |-> Str("t"), type |-> type, source_directory |-> SourceDirectories[d]] :
         type \in TargetTypes, d \in 1..Len(SourceDirectories)}

SeqsUpTo(S, n) == UNION {[1..k -> S] : k \in 0..n}

\* the paths generate may write
OutputPaths ==
    {output_directory \o <<"BUCK">>, buckconfig_path}
        \cup {output_directory \o relative(SourceDirectories[d], current_path) \o <<"BUCK">> :
                  d \in 1..Len(SourceDirectories)}

InitGenerate ==
    /\ Idle
    /\ InitScopes
    /\ InitNesting
    /\ InitPipelines
    /\ InitLexers
    /\ InitAlone
    /\ \E targets \in SeqsUpTo(GeneratedTargets, MaxTargets) :
           analysis = [ProjectAnalysis EXCEPT !.targets = targets]
    /\ generators = [dry \in BOOLEAN |->
                        Generator([output_directory |-> output_directory, dry_run |-> dry])]
    /\ \E unwritable \in SUBSET OutputPaths :
           filesystem = [files |-> <<>>, unwritable |-> unwritable]
    /\ pc = "generate"

NextGenerate == GenerateBuckFile \/ GenerateBuckconfig

SpecGenerate == InitGenerate /\ [][NextGenerate]_vars

(***************************************************************************)
(* Migration: MigrationPipeline::execute on a source directory of up to    *)
(* MaxEntries entries: discovery, then one file of the loop per step,      *)
(* then generation and the result.                                         *)
(***************************************************************************)
MaxEntries == 3

\* path.extension() of a file name: from its last dot on, none for a
\* leading dot
RECURSIVE last_dot(_, _)
last_dot(name, i) ==
    IF i = 0 THEN 0 ELSE IF name[i] = "." THEN i ELSE last_dot(name, i - 1)

extension(name) ==
    IF last_dot(name, Len(name)) > 1
    THEN SubSeq(name, last_dot(name, Len(name)), Len(name)) ELSE <<>>

\* discover_cmake_files's test of a directory entry
is_cmake_file(entry) ==
    /\ entry.is_regular_file
    /\ (entry.filename = Str("CMakeLists.txt") \/ extension(entry.filename) = Str(".cmake"))

MigrationError(kind) == [st |-> "err", kind |-> kind]

discover_cmake_files(tree) ==
    IF ~tree.exists THEN MigrationError("FileSystemError")
    ELSE IF SelectSeq(tree.entries, is_cmake_file) = <<>>
    THEN MigrationError("FileSystemError")
    ELSE [st |-> "ok", value |-> SelectSeq(tree.entries, is_cmake_file)]

\* process_file: the file is opened and read, and a fixed analysis returned
process_file(cmake_file) ==
    IF ~cmake_file.can_open THEN MigrationError("FileSystemError")
    ELSE [st |-> "ok",
          value |-> [ProjectAnalysis EXCEPT !.project_name = Str("parsed_project"),
                                            !.project_version = Str("1.0.0")]]

\* the map target with the entries of the map from assigned into it
merge_map(target, from) ==
    [k \in DOMAIN target \cup DOMAIN from |->
        IF k \in DOMAIN from THEN from[k] ELSE target[k]]

\* merge_analysis with the maps merged by insert, which keeps the value a key
\* already has
merge_analysis_by_insert(target, from) ==
    [target EXCEPT
        !.project_name = IF @ = <<>> /\ from.project_name # <<>>
                         THEN from.project_name ELSE @,
        !.project_version = IF @ = <<>> /\ from.project_version # <<>>
                            THEN from.project_version ELSE @,
        !.targets = @ \o from.targets,
        !.global_variables = merge_map(from.global_variables, @),
        !.cache_variables = merge_map(from.cache_variables, @),
        !.warnings = @ \o from.warnings]

\* merge_analysis(target, source)
merge_analysis(target, from) ==
    [target EXCEPT
        !.project_name = IF @ = <<>> /\ from.project_name # <<>>
                         THEN from.project_name ELSE @,
        !.project_version = IF @ = <<>> /\ from.project_version # <<>>
                            THEN from.project_version ELSE @,
        !.targets = @ \o from.targets,
        !.global_variables = merge_map(@, from.global_variables),
        !.cache_variables = merge_map(@, from.cache_variables),
        !.warnings = @ \o from.warnings]

\* generate_buck_files: nothing is generated
generate_buck_files(full_analysis) == [st |-> "ok"]

\* MigrationPipeline(config), and execute up to discovery
MigrationPipeline ==
    [st |-> "discovery", cmake_files |-> <<>>, current_file |-> 0,
     files_processed |-> 0, targets_generated |-> 0, errors_encountered |-> 0,
     full_analysis |-> ProjectAnalysis, error |-> "none"]

\* Phase 1
DiscoverFiles ==
    /\ pc = "migrate"
    /\ pipeline.st = "discovery"
    /\ pipeline' = Bind(discover_cmake_files(source_tree), LAMBDA files_result :
           IF files_result.st = "err"
           THEN [pipeline EXCEPT !.st = "err", !.error = files_result.kind]
           ELSE [pipeline EXCEPT !.st = "parsing", !.cmake_files = files_result.value])
    /\ UNCHANGED <<parserVars, contextVars, host, analysis, scopeVars, nestingVars,
                   generatorVars, source_tree, lexerVars, aloneVars, pc>>

\* the loop of phase 2 with an unreadable file skipped without being counted
ProcessFileUncounted ==
    /\ pc = "migrate"
    /\ pipeline.st = "parsing"
    /\ pipeline.current_file < Len(pipeline.cmake_files)
    /\ pipeline' =
           Bind(process_file(pipeline.cmake_files[pipeline.current_file + 1]),
                LAMBDA file_analysis :
               IF file_analysis.st = "err"
               THEN [pipeline EXCEPT !.current_file = @ + 1]
               ELSE [pipeline EXCEPT !.current_file = @ + 1,
                                     !.full_analysis =
                                         merge_analysis(@, file_analysis.value),
                                     !.files_processed = @ + 1])
    /\ UNCHANGED <<parserVars, contextVars, host, analysis, scopeVars, nestingVars,
                   generatorVars, source_tree, lexerVars, aloneVars, pc>>

\* Phase 2, one file
ProcessFile ==
    /\ pc = "migrate"
    /\ pipeline.st = "parsing"
    /\ pipeline.current_file < Len(pipeline.cmake_files)
    /\ pipeline' =
           Bind(process_file(pipeline.cmake_files[pipeline.current_file + 1]),
                LAMBDA file_analysis :
               IF file_analysis.st = "err"
               THEN [pipeline EXCEPT !.current_file = @ + 1,
                                     !.errors_encountered = @ + 1]
               ELSE [pipeline EXCEPT !.current_file = @ + 1,
                                     !.full_analysis =
                                         merge_analysis(@, file_analysis.value),
                                     !.files_processed = @ + 1])
    /\ UNCHANGED <<parserVars, contextVars, host, analysis, scopeVars, nestingVars,
                   generatorVars, source_tree, lexerVars, aloneVars, pc>>

\* Phase 3, and the MigrationResult
GenerateBuckFiles ==
    /\ pc = "migrate"
    /\ pipeline.st = "parsing"
    /\ pipeline.current_file = Len(pipeline.cmake_files)
    /\ pipeline' = IF generate_buck_files(pipeline.full_analysis).st = "err"
                   THEN [pipeline EXCEPT !.st = "err", !.error = "GenerationError"]
                   ELSE [pipeline EXCEPT !.st = "ok"]
    /\ UNCHANGED <<parserVars, contextVars, host, analysis, scopeVars, nestingVars,
                   generatorVars, source_tree, lexerVars, aloneVars, pc>>

\* what the source directory may hold
Entries ==
    {[directory |-> 0, filename |-> Str(name), is_regular_file |-> regular,
      can_open |-> open] :
         name \in {"CMakeLists.txt", "a.cmake", "README"},
         regular \in BOOLEAN, open \in BOOLEAN}

\* the entries in the order recursive_directory_iterator yields them, each
\* with its place as its directory
InitMigrate ==
    /\ Idle
    /\ analysis = [st |-> "none"]
    /\ InitScopes
    /\ InitNesting
    /\ InitGenerators
    /\ InitLexers
    /\ InitAlone
    /\ \E exists \in BOOLEAN, entries \in SeqsUpTo(Entries, MaxEntries) :
           source_tree =
               [exists |-> exists,
                entries |-> IF exists
                            THEN [i \in 1..Len(entries) |->
                                     [entries[i] EXCEPT !.directory = i]]
                            ELSE <<>>]
    /\ pipeline = MigrationPipeline
    /\ pc = "migrate"

NextMigrate == DiscoverFiles \/ ProcessFile \/ GenerateBuckFiles

SpecMigrate == InitMigrate /\ [][NextMigrate]_vars

(***************************************************************************)
(* Merging: the loop of execute with files whose analyses differ, up to    *)
(* MaxMerges of them; analysis holds the analysis of the file at hand.     *)
(***************************************************************************)
MaxMerges == 2

MapOf(key, value) == [k \in {Str(key)} |-> Str(value)]

\* the analyses process_file may hand to merge_analysis
FileAnalyses ==
    {[ProjectAnalysis EXCEPT
         !.project_name = name, !.project_version = version,
         !.targets = IF listed
                     THEN <<[name |-> name, type |-> "StaticLibrary",
                             source_directory |-> current_path]>>
                     ELSE <<>>,
         !.global_variables = variables,
         !.cache_variables = IF listed THEN variables ELSE <<>>,
         !.warnings = IF listed THEN <<version>> ELSE <<>>] :
         name \in {<<>>, Str("p"), Str("q")}, version \in {<<>>, Str("1.0")},
         variables \in {<<>>, MapOf("K", "1"), MapOf("K", "2")}, listed \in BOOLEAN}

\* one iteration of the loop of phase 2 whose file was read
MergeFile ==
    /\ pc = "merge"
    /\ pipeline.st = "parsing"
    /\ pipeline.files_processed < MaxMerges
    /\ \E file_analysis \in FileAnalyses :
           /\ analysis' = file_analysis
           /\ pipeline' = [pipeline EXCEPT
                  !.current_file = @ + 1,
                  !.full_analysis = merge_analysis(@, file_analysis),
                  !.files_processed = @ + 1]
    /\ UNCHANGED <<parserVars, contextVars, host, scopeVars, nestingVars,
                   generatorVars, source_tree, lexerVars, aloneVars, pc>>

InitMerge ==
    /\ Idle
    /\ analysis = [st |-> "none"]
    /\ InitScopes
    /\ InitNesting
    /\ InitGenerators
    /\ InitLexers
    /\ InitAlone
    /\ source_tree = [exists |-> TRUE, entries |-> <<>>]
    /\ pipeline = [MigrationPipeline EXCEPT !.st = "parsing"]
    /\ pc = "merge"

SpecMerge == InitMerge /\ [][MergeFile]_vars

(***************************************************************************)
(* A Lexer and its SourceBuffer used by themselves (src/src/parser/lexer): *)
(* next_token, peek_token and location_at called in any order on one      *)
(* source.  lexer.returned is the list of the calls made so far, each with *)
(* the position it started from and what it returned.                      *)
(***************************************************************************)
MaxLexCalls == 3
MaxAhead == 1

RECURSIVE compute_line_starts(_, _)
compute_line_starts(content_, i) ==
    IF i >= Len(content_) THEN <<>>
    ELSE (IF at(content_, i) = "\n" THEN <<i + 1>> ELSE <<>>)
         \o compute_line_starts(content_, i + 1)

SourceBuffer(content) ==
    [content_ |-> content, line_starts_ |-> <<0>> \o compute_line_starts(content, 0)]

\* std::upper_bound: the index (from 0) of the first line start above offset
upper_bound(line_starts_, offset) ==
    Cardinality({i \in 1..Len(line_starts_) : line_starts_[i] <= offset})

line_column_at(buffer, offset0) ==
    LET offset == IF offset0 >= Len(buffer.content_) THEN Len(buffer.content_) ELSE offset0
        line_idx == upper_bound(buffer.line_starts_, offset) - 1
    IN  [line |-> line_idx + 1, column |-> offset - buffer.line_starts_[line_idx + 1] + 1]

location_at(buffer, offset) ==
    Bind(line_column_at(buffer, offset), LAMBDA lc :
        [line |-> lc.line, column |-> lc.column, offset |-> offset])

Lexer ==
    [st |-> "lexer", position_ |-> 0, token_buffer_ |-> <<>>, buffer_pos_ |-> 0,
     returned |-> <<>>, asked |-> 0, location |-> [line |-> 0, column |-> 0, offset |-> 0]]

\* the loop of peek_token: every turn lexes from the same saved position
RECURSIVE peek_token(_, _, _)
peek_token(src, L, ahead) ==
    IF Len(L.token_buffer_) <= L.buffer_pos_ + ahead
    THEN Bind(next_token(src, L.position_), LAMBDA result :
             IF ~result.ok THEN [L |-> L, result |-> result]
             ELSE peek_token(src, [L EXCEPT !.token_buffer_ = Append(@, result.tok)],
                             ahead))
    ELSE [L |-> L,
          result |-> LexOk(L.token_buffer_[L.buffer_pos_ + ahead + 1], L.position_)]

Call(name, ahead, from, result) ==
    [call |-> name, ahead |-> ahead, from |-> from, result |-> result]

NextToken ==
    /\ pc = "lex"
    /\ Len(lexer.returned) < MaxLexCalls
    /\ lexer' = Bind(next_token(source, lexer.position_), LAMBDA result :
           [lexer EXCEPT !.position_ = result.pos,
                         !.returned = Append(@, Call("next_token", 0, lexer.position_,
                                                     result))])
    /\ UNCHANGED <<parserVars, contextVars, host, analysis, scopeVars, nestingVars,
                   generatorVars, pipelineVars, aloneVars, pc>>

PeekToken ==
    /\ pc = "lex"
    /\ Len(lexer.returned) < MaxLexCalls
    /\ \E ahead \in 0..MaxAhead :
           lexer' = Bind(peek_token(source, lexer, ahead), LAMBDA r :
               [r.L EXCEPT !.returned = Append(@, Call("peek_token", ahead,
                                                       lexer.position_, r.result))])
    /\ UNCHANGED <<parserVars, contextVars, host, analysis, scopeVars, nestingVars,
                   generatorVars, pipelineVars, aloneVars, pc>>

LocationAt ==
    /\ pc = "lex"
    /\ \E offset \in 0..(Len(source) + 2) :
           lexer' = [lexer EXCEPT !.asked = offset,
                                  !.location = location_at(SourceBuffer(source), offset)]
    /\ UNCHANGED <<parserVars, contextVars, host, analysis, scopeVars, nestingVars,
                   generatorVars, pipelineVars, aloneVars, pc>>

NextLexer == NextToken \/ PeekToken \/ LocationAt

LexerSources ==
    {<<>>, Str("a(b)"), Str("a b c"), Str("a\nb"), Str("# c\nx"), Str("#[[c]]x"),
     Str("#[=[c\nd]=]x"), Str("x #[[c]] y")}

InitLexer ==
    /\ \E text \in LexerSources : IdleOn(text)
    /\ analysis = [st |-> "none"]
    /\ InitScopes
    /\ InitNesting
    /\ InitGenerators
    /\ InitPipelines
    /\ lexer = Lexer
    /\ InitAlone
    /\ pc = "lex"

SpecLexer == InitLexer /\ [][NextLexer]_vars

(***************************************************************************)
(* One CPM command parsed by itself: source holds the command, and cpm is  *)
(* what parse_command_invocation returned for it.                          *)
(***************************************************************************)
CPMSourceTypes == {"GitHub", "GitURL", "URL", "Local"}

\* an indeterminate source_type_ reads as any CPMSourceType
ReadPackage(node, type) ==
    IF node.type = "CPMAddPackage" /\ node.source_type_ = "indeterminate"
    THEN [node EXCEPT !.source_type_ = type]
    ELSE node

ParseCPMCommand ==
    /\ pc = "cpm"
    /\ cpm.st = "none"
    /\ Bind(parse_command_invocation(AtStatement), LAMBDA r :
           /\ SetParser(r.P)
           /\ errors_' = r.P.errors_
           /\ \E type \in CPMSourceTypes :
                  cpm' = IF r.st = "ok" THEN CPMOk(ReadPackage(r.node, type))
                         ELSE CPMErr(r.err))
    /\ UNCHANGED <<elements, parse_result, contextVars, host, analysis, scopeVars,
                   nestingVars, generatorVars, pipelineVars, lexerVars, mapper, pc>>

Shorthands ==
    {prefix \o owner \o <<"/">> \o repo \o version :
        prefix \in {<<>>, Str("gh:")}, owner \in {<<>>, Str("fmtlib")},
        repo \in {<<>>, Str("fmt")},
        version \in {<<>>, Str("@"), Str("@10.0.0"), Str("#10.0.0"), Str("@>=1.2"),
                     Str("@@1"), Str("@v1-rc")}}

CPMSources ==
    {Str("CPMAddPackage(\"") \o shorthand \o Str("\")") : shorthand \in Shorthands}
    \cup {Str("CPMAddPackage()"),
          Str("CPMAddPackage(fmt)"),
          Str("CPMAddPackage(NAME)"),
          Str("CPMAddPackage(NAME\nfmt\nVERSION\n@1\nGITHUB_REPOSITORY\nfmtlib/fmt)"),
          Str("CPMAddPackage(fmt\nGIT_TAG\nv1\nURL\nu\nOPTIONS\n\"A:BOOL x\"\nB\ny\nSYSTEM)"),
          Str("CPMOther(a)")}

InitCPM ==
    /\ \E text \in CPMSources : IdleOn(text)
    /\ analysis = [st |-> "none"]
    /\ InitScopes
    /\ InitNesting
    /\ InitGenerators
    /\ InitPipelines
    /\ InitLexers
    /\ cpm = [st |-> "none"]
    /\ mapper = [st |-> "none"]
    /\ pc = "cpm"

SpecCPM == InitCPM /\ [][ParseCPMCommand]_vars

(***************************************************************************)
(* A TargetMapper used by itself (src/src/generator/target_mapper.cpp):    *)
(* normalize_target_name applied to a name and then to its own results,    *)
(* or resolve_dependencies applied to a list of link libraries.  mapper    *)
(* starts with the name or the list that is going to be passed.            *)
(***************************************************************************)
MaxNameLen == 3
MaxNormalize == 2
MaxDeps == 2

\* dep.find(sub) != std::string::npos
found(dep, sub) ==
    \E i \in 0..(Len(dep) - Len(sub)) : slice(dep, i, i + Len(sub)) = sub

\* std::replace(begin, end, old, new)
std_replace(str, old, new) == [i \in 1..Len(str) |-> IF str[i] = old THEN new ELSE str[i]]

\* resolve_dependencies without the std::replace
resolve_dependencies_unreplaced(deps) ==
    [i \in 1..Len(deps) |->
        IF found(deps[i], Str("::")) THEN Str("//") \o deps[i]
        ELSE Str(":") \o normalize_target_name(deps[i])]

resolve_dependencies(deps) ==
    [i \in 1..Len(deps) |->
        IF found(deps[i], Str("::")) THEN Str("//") \o std_replace(deps[i], ":", "_")
        ELSE Str(":") \o normalize_target_name(deps[i])]

TargetMapper(name, deps) ==
    [st |-> "mapper", call |-> "none", name |-> name, normalized |-> 0,
     deps |-> deps, resolved |-> <<>>]

NormalizeTargetName ==
    /\ pc = "map"
    /\ mapper.deps = <<>>
    /\ mapper.call # "resolve_dependencies"
    /\ mapper.normalized < MaxNormalize
    /\ mapper' = [mapper EXCEPT !.call = "normalize_target_name",
                                !.name = normalize_target_name(@),
                                !.normalized = @ + 1]
    /\ UNCHANGED <<parserVars, contextVars, host, analysis, scopeVars, nestingVars,
                   generatorVars, pipelineVars, lexerVars, cpm, pc>>

DepNames ==
    {<<>>, Str("fmt"), Str("fmt::fmt"), Str("a::b::c"), Str("::"), Str("a:b"),
     Str("3rd.party"), Str("my-lib_2")}

ResolveDependencies ==
    /\ pc = "map"
    /\ mapper.name = <<>>
    /\ mapper.call = "none"
    /\ mapper' = [mapper EXCEPT !.call = "resolve_dependencies",
                                !.resolved = resolve_dependencies(mapper.deps)]
    /\ UNCHANGED <<parserVars, contextVars, host, analysis, scopeVars, nestingVars,
                   generatorVars, pipelineVars, lexerVars, cpm, pc>>

NextMapper == NormalizeTargetName \/ ResolveDependencies

NameChars == {"a", "Z", "1", "_", "-", ":", "."}

InitMapper ==
    /\ Idle
    /\ analysis = [st |-> "none"]
    /\ InitScopes
    /\ InitNesting
    /\ InitGenerators
    /\ InitPipelines
    /\ InitLexers
    /\ cpm = [st |-> "none"]
    /\ \E name \in SeqsUpTo(NameChars, MaxNameLen), deps \in SeqsUpTo(DepNames, MaxDeps) :
           /\ name = <<>> \/ deps = <<>>
           /\ mapper = TargetMapper(name, deps)
    /\ pc = "map"

SpecMapper == InitMapper /\ [][NextMapper]_vars

(***************************************************************************)
(* Properties                                                              *)
(***************************************************************************)
\* what parse_file reported: the errors of an Err result, none for a File
Reported == IF parse_result.st = "err" THEN parse_result.errors ELSE <<>>

\* a command that is never closed, then valid statements
MissingParenSources ==
    {ErrorRecoveryCode, Flatten(<<Str("f(a"), Str("\n"), Str("f(a)")>>)}

\* C1: for an input with a missing ")" followed by valid statements,
\* parse_file returns a non-empty list of errors instead of a File.
C1_MissingParenReported ==
    (pc = "parsed" /\ source \in MissingParenSources)
        => (parse_result.st = "err" /\ Len(parse_result.errors) >= 1)

\* C2: add_library(mylib STATIC src/main.cpp) parses to a single CommandCall
\* named add_library with exactly 3 arguments.
C2_WhitespaceSeparatesArguments ==
    (pc = "parsed" /\ source = SimpleCommandCode)
        => /\ parse_result.st = "ok"
           /\ Len(parse_result.statements) = 1
           /\ parse_result.statements[1].type = "CommandCall"
           /\ parse_result.statements[1].name = Str("add_library")
           /\ Len(parse_result.statements[1].arguments) = 3

\* the variable holds the string with the confidence
Holds(name, chars, confidence) ==
    /\ Str(name) \in DOMAIN variables_
    /\ variables_[Str(name)] = [value |-> StringValue(Str(chars)), confidence |-> confidence]

\* C3: with a false if-condition the body of the first elseif whose condition
\* is true is evaluated (R is "b"), and the else-branch only when no elseif
\* condition is true (R is "c").
C3_FirstTrueElseIfTaken ==
    /\ (pc = "done" /\ source = ElseIfTakenCode) => Holds("R", "b", "Certain")
    /\ (pc = "done" /\ source = ElseTakenCode) => Holds("R", "c", "Certain")

\* C4: after if(WIN32) set(LIB_TYPE SHARED) else() set(LIB_TYPE STATIC) endif(),
\* on one line or one statement per line, LIB_TYPE is "STATIC" and Certain on a
\* Unix host, "SHARED" on a Windows host.
C4_PlatformBranch ==
    (pc = "done" /\ source \in {PlatformBranchCode, PlatformBranchLines})
        => IF host = "Windows"
           THEN /\ Str("LIB_TYPE") \in DOMAIN variables_
                /\ variables_[Str("LIB_TYPE")].value = StringValue(Str("SHARED"))
           ELSE Holds("LIB_TYPE", "STATIC", "Certain")

\* C5: recovery clears the panic flag, so every statement that failed to
\* parse is recorded: parse_file reports at least as many errors as
\* statements failed, and the flag is clear when it returns.
C5_EveryFailureReported ==
    pc = "parsed" => (~panic_mode_ /\ Len(Reported) >= failed)

\* C6: when parse errors occurred, parse_file still hands the caller the
\* statements that parsed, those after the defect included.
C6_PartialASTReturned ==
    (pc = "parsed" /\ parse_result.st = "err" /\ elements # <<>>)
        => /\ "statements" \in DOMAIN parse_result
           /\ parse_result.statements = elements

\* C7: with PREFIX = "my" and SUFFIX = "lib" defined, evaluating
\* set(LIB_NAME ${PREFIX}_${SUFFIX}) stores LIB_NAME = "my_lib", Certain.
C7_InterpolatedName ==
    (pc = "done" /\ source = InterpolationCode
     /\ Holds("PREFIX", "my", "Certain") /\ Holds("SUFFIX", "lib", "Certain"))
        => Holds("LIB_NAME", "my_lib", "Certain")

\* the node of the latest call of evaluate
LastEvaluated == evaluated[Len(evaluated)]

\* C8: a string literal with a ${NAME} reference that cannot be resolved
\* evaluates to the original string with Uncertain confidence.
C8_UnresolvedIsUncertain ==
    (evaluated # <<>> /\ LastEvaluated = UnresolvedLiteral
     /\ ~has_variable(Context("stop"), Str("NAME"))
     /\ ~has_cache_variable(Context("stop"), Str("NAME")))
        => result_ = [st |-> "ok", value |-> StringValue(UnresolvedLiteral.value),
                      confidence |-> "Uncertain"]

\* the lesser of two confidences in the order Unknown < Uncertain < Likely < Certain
Lesser(a, b) == IF ConfidenceRank(a) >= ConfidenceRank(b) THEN a ELSE b

\* the least of the confidences the nodes evaluate to, Certain for none
RECURSIVE LeastConfidence(_)
LeastConfidence(nodes) ==
    IF nodes = <<>> THEN "Certain"
    ELSE Lesser(evaluate(Context("stop"), Head(nodes)).confidence,
                LeastConfidence(Tail(nodes)))

\* C9: the multi-value set() stores a list whose confidence is the least of
\* its elements' confidences in the order Unknown < Uncertain < Likely <
\* Certain; a list with an Unknown element is stored as Unknown.
C9_ListConfidenceIsLeast ==
    (evaluated # <<>> /\ LastEvaluated \in {ListOfCertain, ListWithUnknown, ListWithLikely})
        => /\ Str("V") \in DOMAIN variables_
           /\ variables_[Str("V")].value.kind = "list"
           /\ variables_[Str("V")].confidence = LeastConfidence(Tail(LastEvaluated.arguments))

\* the libraries the calls of target_link_libraries in calls name for the
\* target, in call order and without the visibility keywords; a call made
\* before the target is declared names none
RECURSIVE LinkedInOrder(_, _, _)
LinkedInOrder(calls, target, declared) ==
    IF calls = <<>> THEN <<>>
    ELSE IF Head(calls).type # "CommandCall" \/ Head(calls).arguments[1].value # target
    THEN LinkedInOrder(Tail(calls), target, declared)
    ELSE IF Head(calls).name \in {Str("add_library"), Str("add_executable")}
    THEN LinkedInOrder(Tail(calls), target, TRUE)
    ELSE IF Head(calls).name = Str("target_link_libraries") /\ declared
    THEN SelectSeq([i \in 1..(Len(Head(calls).arguments) - 1) |->
                       Head(calls).arguments[i + 1].value],
                   LAMBDA x : x \notin VisibilityKeywords)
         \o LinkedInOrder(Tail(calls), target, declared)
    ELSE LinkedInOrder(Tail(calls), target, declared)

\* C10: successive target_link_libraries calls on a target append in call
\* order, the visibility keywords skipped: the first target of a name links
\* exactly the libraries its calls named, in the order of the calls.
C10_LinkLibrariesInCallOrder ==
    \A i \in 1..Len(targets_) :
        targets_[i].link_libraries =
            IF find_target(Context("stop"), targets_[i].name) = i
            THEN LinkedInOrder(evaluated, targets_[i].name, FALSE)
            ELSE <<>>

\* target_link_libraries(X PRIVATE a), then target_link_libraries(X PRIVATE b),
\* have left X with link_libraries [a, b]
C10_TwoCallsAppended ==
    /\ Len(evaluated) = 3
    /\ evaluated[2] = LinkPrivate("X", "a")
    /\ evaluated[3] = LinkPrivate("X", "b")
    /\ Len(targets_) = 1
    /\ targets_[1].name = Str("X")
    /\ targets_[1].link_libraries = <<Str("a"), Str("b")>>

\* C11: only the statements of the taken branch of an if-statement are
\* evaluated: with a false if-condition and a true elseif condition the
\* statements of the then-branch and of the else-branch change nothing, so R
\* is neither "a" nor "c"; with no true condition R is neither "a" nor "b".
C11_UntakenBranchesSkipped ==
    /\ (pc = "done" /\ source = ElseIfTakenCode)
           => (~Holds("R", "a", "Certain") /\ ~Holds("R", "c", "Certain"))
    /\ (pc = "done" /\ source = ElseTakenCode)
           => (~Holds("R", "a", "Certain") /\ ~Holds("R", "b", "Certain"))

\* C12: option(ENABLE_TESTS "Enable testing" ON) stores ENABLE_TESTS as a
\* cache variable with the value "ON" and Uncertain confidence, and defines
\* no regular variable ENABLE_TESTS.
C12_OptionIsCacheOnly ==
    (pc = "done" /\ source = OptionCode)
        => /\ Str("ENABLE_TESTS") \in DOMAIN cache_variables_
           /\ cache_variables_[Str("ENABLE_TESTS")] =
                  [value |-> StringValue(Str("ON")), confidence |-> "Uncertain"]
           /\ Str("ENABLE_TESTS") \notin DOMAIN variables_

\* C13: analysing project(simple-library VERSION 1.0.0), on one line or one
\* argument per line, yields project_name "simple-library" and
\* project_version "1.0.0".
C13_ProjectVersionStored ==
    (pc = "done" /\ source \in {ProjectCode, ProjectLines})
        => /\ analysis.st = "ok"
           /\ analysis.project_name = Str("simple-library")
           /\ analysis.project_version = Str("1.0.0")

\* C14: cmake_minimum_required(VERSION 3.20), on one line or one argument per
\* line, stores CMAKE_MINIMUM_REQUIRED_VERSION as the text written, "3.20",
\* with Certain confidence.
C14_VersionTextKept ==
    (pc = "done" /\ source \in {MinimumRequiredCode, MinimumRequiredLines})
        => Holds("CMAKE_MINIMUM_REQUIRED_VERSION", "3.20", "Certain")

\* the value of the latest call of op on scope i with the name among the
\* first n calls, as an optional
RECURSIVE LatestWrite(_, _, _, _)
LatestWrite(op, i, name, n) ==
    IF n = 0 THEN <<>>
    ELSE IF writes[n].op = op /\ writes[n].scope = i /\ writes[n].name = name
    THEN <<writes[n].value>>
    ELSE LatestWrite(op, i, name, n - 1)

\* the latest write of op to the name in scope i or, failing that, in the
\* nearest of its ancestors
RECURSIVE Inherited(_, _, _)
Inherited(op, i, name) ==
    IF LatestWrite(op, i, name, Len(writes)) # <<>> \/ scopes[i].parent_ = 0
    THEN LatestWrite(op, i, name, Len(writes))
    ELSE Inherited(op, scopes[i].parent_, name)

\* a step leaves every scope but the one the call was made on as it was
OwnFrameOnly ==
    \A i \in 1..Len(scopes) :
        writes'[Len(writes')].scope # i => scopes'[i] = scopes[i]

\* C15: a write made in a scope changes that scope's frame only, never the
\* parent's variables, cache variables or platform checks; a scope reads
\* variables and platform checks from its own frame and then from the
\* parent chain, and cache variables from its own frame alone.
C15_ScopesIsolated ==
    /\ [][OwnFrameOnly]_vars
    /\ [](\A i \in 1..Len(scopes) : \A name \in ScopeNames :
            /\ scope_get_variable(scopes, i, name) = Inherited("set_variable", i, name)
            /\ scope_get_platform_check(scopes, i, name)
                   = Inherited("set_platform_check", i, name)
            /\ scope_get_cache_variable(scopes, i, name)
                   = LatestWrite("set_cache_variable", i, name, Len(writes)))

\* a child has set A, which its parent defines with another value, and the
\* parent still reads its own
C15_ChildShadowsParent ==
    \E i \in 1..Len(scopes) :
        /\ scopes[i].parent_ # 0
        /\ writes # <<>>
        /\ writes[Len(writes)].op = "set_variable"
        /\ writes[Len(writes)].scope = i
        /\ scope_get_variable(scopes, scopes[i].parent_, Str("A"))
               = <<[value |-> StringValue(Str("1")), confidence |-> "Certain"]>>
        /\ scope_get_variable(scopes, i, Str("A"))
               = <<[value |-> StringValue(Str("2")), confidence |-> "Certain"]>>

\* C16: an evaluation nested deeper than max_recursion_depth_ yields an
\* analysis error instead of recursing on: the call of evaluate that
\* exceeds the cap returns an error.
C16_DepthCapped ==
    [][(in_progress > max_recursion_depth_ /\ in_progress' < in_progress)
           => result_'.st = "err"]_vars

\* the statement evaluated last came to an evaluation error
StatementFailed == pc = "parsed" /\ evaluated # <<>> /\ result_.st = "err"

\* C17: an evaluation error in one statement does not abort the file: the
\* statements after it are still evaluated, and analyze() still returns a
\* ProjectAnalysis, holding what the other statements set.
C17_EvaluationErrorIsLocal ==
    /\ [][StatementFailed =>
             IF Len(evaluated) < Len(parse_result.statements)
             THEN /\ pc' = "parsed"
                  /\ evaluated' = Append(evaluated,
                                         parse_result.statements[Len(evaluated) + 1])
             ELSE pc' = "done" /\ analysis'.st = "ok"]_vars
    /\ [](/\ (source = ErrorFirstCode /\ pc = "parsed" /\ Len(evaluated) = 1)
                 => StatementFailed
          /\ (source = ErrorLastCode /\ pc = "parsed" /\ Len(evaluated) = 2)
                 => StatementFailed
          /\ (source \in {ErrorFirstCode, ErrorLastCode} /\ pc = "done")
                 => /\ analysis.st = "ok"
                    /\ Str("A") \in DOMAIN analysis.global_variables
                    /\ analysis.global_variables[Str("A")] = Str("b"))

\* analyze returned a ProjectAnalysis for a file whose first statement failed
\* to evaluate, with the variable its second statement set
C17_AnalysisAfterError ==
    /\ pc = "done"
    /\ source = ErrorFirstCode
    /\ analysis.st = "ok"
    /\ analysis.global_variables[Str("A")] = Str("b")

\* the targets of the group all have a template and its BUCK file can be
\* written
CanGenerate(groups, group) ==
    /\ \A i \in 1..Len(group.targets) :
           get_template(determine_rule_type(group.targets[i])) # "nullptr"
    /\ output_path(groups, group.dir) \notin filesystem.unwritable

\* C18: a generation error for one BUCK file aborts emission of that file
\* only: once generate has returned, the BUCK file of every directory that
\* can be generated has been written.
C18_OtherFilesStillGenerated ==
    (pc = "generate" /\ generators[FALSE].st \in {"ok", "err"})
        => Bind(targets_by_dir(analysis.targets), LAMBDA groups :
               \A g \in 1..Len(groups) :
                   CanGenerate(groups, groups[g])
                       => output_path(groups, groups[g].dir) \in DOMAIN filesystem.files)

\* generate has returned, for the Generator with this dry_run
Returned_(dry) == pc = "generate" /\ generators[dry].st \in {"ok", "err"}

\* C20: a dry run returns the same list of generated files as a real run
\* on the same analysis, and performs no filesystem writes: whenever the
\* real run returns a list the dry run returns that list, and no step of
\* the dry run changes the filesystem.
C20_DryRunSameListNoWrites ==
    /\ []((Returned_(TRUE) /\ Returned_(FALSE) /\ generators[FALSE].st = "ok")
             => /\ generators[TRUE].st = "ok"
                /\ generators[TRUE].generated_files = generators[FALSE].generated_files)
    /\ [][(pc = "generate" /\ generators'[FALSE] = generators[FALSE])
             => filesystem' = filesystem]_vars

\* both runs returned the list of two BUCK files and .buckconfig; the files
\* on disk are those the real run wrote
C20_BothRunsListed ==
    /\ Returned_(TRUE)
    /\ generators[FALSE].st = "ok"
    /\ Len(generators[TRUE].generated_files) = 3
    /\ generators[TRUE].generated_files = generators[FALSE].generated_files
    /\ DOMAIN filesystem.files =
           {generators[FALSE].generated_files[i] : i \in 1..3}

\* C19: an IO error while reading an input file aborts the pipeline: when
\* execute has returned a MigrationResult, every discovered file could be
\* opened.
C19_UnreadableInputAborts ==
    (pc = "migrate" /\ pipeline.st = "ok")
        => \A i \in 1..Len(pipeline.cmake_files) : pipeline.cmake_files[i].can_open

\* the map after is the map before with the entries of the map written
\* assigned over it
Overwritten(before, written, after) ==
    /\ DOMAIN after = DOMAIN before \cup DOMAIN written
    /\ \A k \in DOMAIN written : after[k] = written[k]
    /\ \A k \in DOMAIN before \ DOMAIN written : after[k] = before[k]

FirstNonEmpty(before, given) == IF before # <<>> THEN before ELSE given

\* C21: merging the analysis of a file into the project's keeps the first
\* non-empty project name and version, appends the file's targets and
\* warnings to those already there, and lets the file's value overwrite an
\* earlier one for the same variable key.
C21_MergeInProcessingOrder ==
    [][pc = "merge" =>
        Bind(pipeline.full_analysis, LAMBDA before :
        Bind(pipeline'.full_analysis, LAMBDA after :
            /\ after.project_name = FirstNonEmpty(before.project_name, analysis'.project_name)
            /\ after.project_version
                   = FirstNonEmpty(before.project_version, analysis'.project_version)
            /\ after.targets = before.targets \o analysis'.targets
            /\ after.warnings = before.warnings \o analysis'.warnings
            /\ Overwritten(before.global_variables, analysis'.global_variables,
                           after.global_variables)
            /\ Overwritten(before.cache_variables, analysis'.cache_variables,
                           after.cache_variables)))]_vars

\* two files were merged: the first named the project p and set K to 1,
\* the second is named q and sets K to 2
C21_SecondFileOverwrites ==
    /\ pc = "merge"
    /\ pipeline.files_processed = 2
    /\ analysis.project_name = Str("q")
    /\ analysis.global_variables = MapOf("K", "2")
    /\ pipeline.full_analysis.project_name = Str("p")
    /\ pipeline.full_analysis.global_variables = MapOf("K", "2")
    /\ Len(pipeline.full_analysis.targets) = 2

\* C29: when execute returns a MigrationResult, every discovered file has
\* been counted exactly once: files_processed + errors_encountered is the
\* number of discovered files.
C29_EveryFileCountedOnce ==
    (pc = "migrate" /\ pipeline.st = "ok")
        => pipeline.files_processed + pipeline.errors_encountered
               = Len(SelectSeq(source_tree.entries, is_cmake_file))

\* execute returned after three discovered files, of which it read some and
\* failed to open others
C29_ReadAndUnreadCounted ==
    /\ pc = "migrate"
    /\ pipeline.st = "ok"
    /\ Len(pipeline.cmake_files) = 3
    /\ pipeline.files_processed > 0
    /\ pipeline.errors_encountered > 0

PropertySetterNames ==
    {Str("target_link_libraries"), Str("target_include_directories"),
     Str("target_compile_definitions")}

\* the node is a property-setter command and no target has the name it gives
SetsUndeclared(node, targets) ==
    /\ node.type = "CommandCall"
    /\ node.name \in PropertySetterNames
    /\ \A i \in 1..Len(targets) : targets[i].name # node.arguments[1].value

\* C30: a property-setter command naming a target that has not been
\* declared leaves every existing target unchanged and adds no target.
C30_UndeclaredTargetIgnored ==
    [][(pc = "eval" /\ evaluated' # evaluated
           /\ SetsUndeclared(evaluated'[Len(evaluated')], targets_))
          => targets_' = targets_]_vars

\* a property setter was evaluated for a target that is not declared while
\* another target is
C30_SetterOnMissingTarget ==
    /\ pc = "eval"
    /\ evaluated # <<>>
    /\ targets_ # <<>>
    /\ SetsUndeclared(LastEvaluated, targets_)
    /\ result_.st = "ok"

\* C22: peek_token(k) returns the token that the (k+1)-th following call of
\* next_token returns, and leaves the position of the lexer where it was.
PeekedThenRead(returned, i) ==
    /\ returned[i].call = "peek_token"
    /\ i + returned[i].ahead + 1 <= Len(returned)
    /\ \A j \in (i + 1)..(i + returned[i].ahead + 1) :
           returned[j].call = "next_token" /\ returned[j].result.ok

C22_PeekIsTokenAhead ==
    pc = "lex" =>
        \A i \in 1..Len(lexer.returned) :
            PeekedThenRead(lexer.returned, i) =>
                /\ lexer.returned[i].result.ok
                /\ lexer.returned[i].result.tok
                       = lexer.returned[i + lexer.returned[i].ahead + 1].result.tok
                /\ lexer.returned[i + 1].from = lexer.returned[i].from

\* C23: a call of next_token that meets a '#' followed by '[', any number of
\* '=' and '[' returns one BracketComment token that starts at the '#' and
\* ends with a closing bracket.
OpensBracketComment(src, pos) ==
    /\ at(src, pos) = "#"
    /\ at(src, pos + 1) = "["
    /\ at(src, skip_equals(src, pos + 2)) = "["

C23_BracketCommentIsOneToken ==
    pc = "lex" =>
        \A i \in 1..Len(lexer.returned) :
            Bind(lexer.returned[i], LAMBDA c :
                (/\ c.call = "next_token"
                 /\ OpensBracketComment(source, skip_whitespace(source, c.from, FALSE)))
                    => /\ c.result.ok
                       /\ c.result.tok.type = "BracketComment"
                       /\ c.result.tok.text[1] = "#"
                       /\ c.result.tok.text[Len(c.result.tok.text)] = "]")

\* C24: for an offset past the end of the content, location_at returns the
\* line, the column and the byte offset of the end of the content.
C24_LocationClampedToEnd ==
    (pc = "lex" /\ lexer.asked > Len(source)) =>
        lexer.location = location_at(SourceBuffer(source), Len(source))

\* C25: parsing CPMAddPackage("gh:fmtlib/fmt@10.0.0") gives a CPMAddPackage
\* node with name fmt, source kind GitHub, source fmtlib/fmt, version 10.0.0
\* and an exact version.
C25_ShorthandWithExactVersion ==
    (/\ pc = "cpm"
     /\ source = Str("CPMAddPackage(\"gh:fmtlib/fmt@10.0.0\")")
     /\ cpm.st # "none")
        => /\ cpm.st = "ok"
           /\ cpm.node.type = "CPMAddPackage"
           /\ cpm.node.name = Str("fmt")
           /\ cpm.node.source_type_ = "GitHub"
           /\ cpm.node.source_ = Str("fmtlib/fmt")
           /\ cpm.node.version_.has_value
           /\ cpm.node.version_.version = Str("10.0.0")
           /\ cpm.node.version_.exact

\* C26: resolve_dependencies gives one label per dependency, in order: for a
\* dependency that contains "::" the label is "//" and the dependency with
\* every ':' replaced by another character, so that no ':' is left in it; for
\* any other it is ":" and the normalized target name.
IsExternalLabel(dep, label) ==
    /\ Len(label) = Len(dep) + 2
    /\ SubSeq(label, 1, 2) = <<"/", "/">>
    /\ \A i \in 1..Len(dep) :
           IF dep[i] = ":" THEN label[i + 2] # ":" ELSE label[i + 2] = dep[i]

IsInternalLabel(dep, label) ==
    label = <<":">> \o normalize_target_name(dep)

C26_DependenciesClassified ==
    (pc = "map" /\ mapper.call = "resolve_dependencies") =>
        /\ Len(mapper.resolved) = Len(mapper.deps)
        /\ \A i \in 1..Len(mapper.deps) :
               IF \E k \in 1..(Len(mapper.deps[i]) - 1) :
                      mapper.deps[i][k] = ":" /\ mapper.deps[i][k + 1] = ":"
               THEN IsExternalLabel(mapper.deps[i], mapper.resolved[i])
               ELSE IsInternalLabel(mapper.deps[i], mapper.resolved[i])

C26_ExternalAndInternalResolved ==
    /\ pc = "map"
    /\ mapper.call = "resolve_dependencies"
    /\ mapper.deps = <<Str("fmt::fmt"), Str("3rd.party")>>
    /\ mapper.resolved = <<Str("//fmt__fmt"), Str(":lib_3rd_party")>>

\* C27: a normalized name holds only letters, digits, '_' and '-' and does not
\* start with a digit, and normalizing it again returns it unchanged.
IsCleanName(name) ==
    /\ \A i \in 1..Len(name) : name[i] \in Lower \cup Upper \cup Digits \cup {"_", "-"}
    /\ name # <<>> => name[1] \notin Digits

C27_NormalizeCleanAndIdempotent ==
    /\ []((pc = "map" /\ mapper.normalized >= 1) => IsCleanName(mapper.name))
    /\ [][(/\ pc = "map"
           /\ mapper.normalized >= 1
           /\ mapper'.normalized = mapper.normalized + 1) => mapper'.name = mapper.name]_vars

C27_DigitLedNameNormalizedTwice ==
    /\ pc = "map"
    /\ mapper.normalized = 2
    /\ mapper.name = Str("lib_1_a")

\* C28: parse_file terminates: no pass of the top-level statement loop, of the
\* block loop or of a function or macro parameter loop leaves the parser on
\* the token it began at unless that token is Eof, so parsing never reaches a
\* pass that repeats for ever.
C28_EveryPassConsumesAToken == pc # "hang"

====
